---- MODULE Spec2Model ----
(***************************************************************************)
(* Model of the performance-task designer: the step classifier            *)
(* (validators.ts), the session memory (memory.ts), the chain factory's   *)
(* prerequisite checks (chains.ts) and the step orchestrator              *)
(* PerformanceTaskService (service.ts).                                   *)
(*                                                                         *)
(* A user message is a sequence of tokens.  A token is a record [w, d]:   *)
(* w is its run of letters ("" for a bare number, "?" for a question      *)
(* mark) and d the value of the digit run glued to it (0 when it has no   *)
(* digits); "option 2" is two tokens, "option2" is one.  Candidate ids    *)
(* are the positive integers 1..MaxId.                                    *)
(***************************************************************************)
EXTENDS Integers, Sequences, FiniteSets, TLC

VARIABLES sessions, turns, activeSessions, http

vars == <<sessions, turns, activeSessions, http>>
routeVars == <<activeSessions, http>>

----------------------------------------------------------------------------
(* Bounds *)

MaxId == 5
NumSessions == 2
MaxInflight == 2
HistWindow == 2
MaxMsgLen == 3

(* Program constants *)

\* (variant: a cap of five)
MaxProductOptions_Raised == 4 + 1

MaxProductOptions == 4

----------------------------------------------------------------------------
(* Optional values: undefined is <<>>, a present value x is <<x>>. *)

None == <<>>
Some(x) == <<x>>
OrEmpty(o) == IF o = None THEN <<>> ELSE o[1]
OrEmptyString(o) == IF o = None THEN "" ELSE o[1]

Range(f) == {f[i] : i \in DOMAIN f}
Abs(n) == IF n < 0 THEN 0 - n ELSE n

----------------------------------------------------------------------------
(* schemas.ts *)

TASK_IDEAS == "task_ideas"
FOCUS_TOPICS == "focus_topics"
PRODUCT_OPTIONS == "product_options"
REQUIREMENTS == "requirements"
RUBRIC == "rubric"
PERFORMANCE_TASK_COMPLETE == "performance_task_complete"

StepOrder ==
  <<TASK_IDEAS, FOCUS_TOPICS, PRODUCT_OPTIONS, REQUIREMENTS, RUBRIC,
    PERFORMANCE_TASK_COMPLETE>>

StepIndex(step) == CHOOSE i \in 1..Len(StepOrder) : StepOrder[i] = step

SelectableSteps == {TASK_IDEAS, FOCUS_TOPICS, PRODUCT_OPTIONS}

\* a TaskIdea / FocusTopic / ProductOption: its id and its text fields, the
\* latter carried as one value
Cand(i, t) == [id |-> i, title |-> t]

----------------------------------------------------------------------------
(* Tokens and messages *)

W(x) == [w |-> x, d |-> 0]
Num(n) == [w |-> "", d |-> n]
Glued(x, n) == [w |-> x, d |-> n]

\* String.prototype.toLowerCase on the letters of a token
LowerWord(x) ==
  CASE x = "YES" -> "yes"
    [] x = "Change" -> "change"
    [] x = "Option" -> "option"
    [] OTHER -> x

toLowerCase(m) == [i \in DOMAIN m |-> [w |-> LowerWord(m[i].w), d |-> m[i].d]]

IsWord(tok, x) == tok.w = x /\ tok.d = 0
IsBareNumber(tok) == tok.w = "" /\ tok.d > 0
HasDigits(tok) == tok.d > 0

\* \bx\b somewhere in the input
HasWord(m, x) == \E i \in DOMAIN m : IsWord(m[i], x)
\* \bx y\b : the two words next to each other
HasPair(m, x, y) ==
  \E i \in DOMAIN m : (i + 1) \in DOMAIN m /\ IsWord(m[i], x) /\ IsWord(m[i + 1], y)
\* \bx\s*\d+\b : x with a number glued to it or right after it
HasWordNumber(m, x) ==
  \E i \in DOMAIN m :
    \/ (m[i].w = x /\ m[i].d > 0)
    \/ (IsWord(m[i], x) /\ (i + 1) \in DOMAIN m /\ IsBareNumber(m[i + 1]))

\* cleanInput.match(/\d+/g) followed by parseInt: the digit runs in order
RECURSIVE ExtractNumbers(_)
ExtractNumbers(m) ==
  IF m = <<>> THEN <<>>
  ELSE IF HasDigits(Head(m)) THEN <<Head(m).d>> \o ExtractNumbers(Tail(m))
  ELSE ExtractNumbers(Tail(m))

----------------------------------------------------------------------------
(* validators.ts: SimpleRuleValidator *)

MsgDefault == "Please provide clearer instructions on how to proceed."
MsgProceed == "Ready to proceed to the next step."
MsgRefine == "User is requesting refinements or has questions."
MsgLLMFail == "Could not determine intent. Please clarify your choice."
MsgLLM == "llm"

SelectVerbs == {"select", "choose", "pick"}
NumberPrefixes == {"number", "option", "task", "topic"}
ProceedWords == {"yes", "proceed", "next", "continue", "good", "great"}
ProceedPairs == {<<"i", "like">>, <<"sounds", "good">>, <<"let's", "go">>}

RefineWords == {"change", "modify", "refine", "reword", "different"}
RefinePairs ==
  {<<"try", "again">>, <<"don't", "like">>, <<"dont", "like">>, <<"not", "good">>,
   <<"what", "if">>, <<"how", "about">>, <<"what", "about">>}
CanYouVerbs == {"change", "update", "modify"}

matchesProceed(m) ==
  \/ \E v \in SelectVerbs :
       \E i \in DOMAIN m : \E j \in DOMAIN m :
         i < j /\ IsWord(m[i], v) /\ IsBareNumber(m[j])
  \/ \E p \in NumberPrefixes : HasWordNumber(m, p)
  \/ \E i \in DOMAIN m : IsBareNumber(m[i])
  \/ \E x \in ProceedWords : HasWord(m, x)
  \/ \E p \in ProceedPairs : HasPair(m, p[1], p[2])

matchesRefinement(m) ==
  \/ \E x \in RefineWords : HasWord(m, x)
  \/ \E p \in RefinePairs : HasPair(m, p[1], p[2])
  \/ \E v \in CanYouVerbs :
       \E i \in DOMAIN m : \E j \in DOMAIN m :
         /\ (i + 1) \in DOMAIN m /\ i + 1 < j
         /\ IsWord(m[i], "can") /\ IsWord(m[i + 1], "you") /\ IsWord(m[j], v)
  \/ (m # <<>> /\ IsWord(m[Len(m)], "?"))

\* A StepValidationResult: currentStepData.selectedIds is selectedIds (None
\* when currentStepData has no such field)
ValidationResult(ready, ids, message) ==
  [isReadyForNextStep |-> ready, selectedIds |-> ids, message |-> message]

\* the loop over proceedPatterns: the first match marks the result ready and
\* extracts the numbers
afterProceedPatterns(cleanInput, result) ==
  IF matchesProceed(cleanInput)
  THEN LET numbers == ExtractNumbers(cleanInput)
       IN [result EXCEPT !.isReadyForNextStep = TRUE,
                         !.message = MsgProceed,
                         !.selectedIds =
                           IF Len(numbers) > 0 THEN Some(numbers) ELSE @]
  ELSE result

\* (variant: a refinement match does not override a proceed match)
afterRefinementPatterns_ProceedWins(cleanInput, result) ==
  IF matchesRefinement(cleanInput) /\ ~result.isReadyForNextStep
  THEN [result EXCEPT !.isReadyForNextStep = FALSE,
                      !.message = MsgRefine,
                      !.selectedIds = None]
  ELSE result

\* the loop over refinementPatterns: the first match overrides the result and
\* replaces currentStepData by the refinement request
afterRefinementPatterns(cleanInput, result) ==
  IF matchesRefinement(cleanInput)
  THEN [result EXCEPT !.isReadyForNextStep = FALSE,
                      !.message = MsgRefine,
                      !.selectedIds = None]
  ELSE result

\* (variant: the default result is "ready")
SimpleValidateStep_DefaultReady(userInput) ==
  LET cleanInput == toLowerCase(userInput)
  IN afterRefinementPatterns(
       cleanInput,
       afterProceedPatterns(cleanInput, ValidationResult(TRUE, None, MsgDefault)))

SimpleValidateStep(userInput) ==
  LET cleanInput == toLowerCase(userInput)
  IN afterRefinementPatterns(
       cleanInput,
       afterProceedPatterns(cleanInput, ValidationResult(FALSE, None, MsgDefault)))

----------------------------------------------------------------------------
(* memory.ts: PerformanceTaskMemory and its InMemoryMemory store *)

SessionIds == 1..NumSessions
TurnIds == 1..MaxInflight

\* new PerformanceTaskMemory(new InMemoryMemory(), topic), with the service's
\* validator kept beside it
NewSession(topic, validatorType) ==
  [topic |-> topic,
   unit |-> None,
   currentStep |-> TASK_IDEAS,
   performanceTask |-> None,
   taskIdeas |-> None,
   selectedTaskIdea |-> None,
   focusTopics |-> None,
   selectedFocusTopics |-> None,
   productOptions |-> None,
   selectedProductOptions |-> None,
   requirements |-> None,
   rubricInfo |-> None,
   conversationHistory |-> <<>>,
   validatorType |-> validatorType]

\* the transcript keeps its HistWindow most recent entries
LastN(h, n) == IF Len(h) <= n THEN h ELSE SubSeq(h, Len(h) - n + 1, Len(h))

\* (variant: the entry replaces the transcript)
addMessage_Replace(s, role, content) ==
  [s EXCEPT !.conversationHistory = <<[role |-> role, content |-> content]>>]

\* a transcript entry: content is the user's message or the response text
addMessage(s, role, content) ==
  [s EXCEPT !.conversationHistory =
     LastN(Append(@, [role |-> role, content |-> content]), HistWindow)]

\* (variant: the step after the one asked for is set)
setCurrentStep_Skip(s, step) ==
  [s EXCEPT !.currentStep =
     StepOrder[IF StepIndex(step) < Len(StepOrder) THEN StepIndex(step) + 1
               ELSE StepIndex(step)]]

\* (variant: the call leaves currentStep as it is)
setCurrentStep_Stay(s, step) == s

setCurrentStep(s, step) == [s EXCEPT !.currentStep = step]

\* service.ts: initialize
initialize(s, unitTitle, gradeName) ==
  [s EXCEPT !.unit = Some([title |-> unitTitle, grade |-> gradeName]),
            !.currentStep = TASK_IDEAS]

----------------------------------------------------------------------------
(* Responses: the text returned by a turn, as its template (kind), the ids
   it names and the stored texts it embeds *)

Response(kind, ids, a, b) == [kind |-> kind, ids |-> ids, a |-> a, b |-> b]
Text(kind) == Response(kind, <<>>, "", "")
NoResponse == Text("")

Ids(list) == [i \in DOMAIN list |-> list[i].id]

GenericError == Text("Sorry, I encountered an error. Please try again.")
RequirementsError == Text("I'm having trouble generating the requirements")
RubricError == Text("I'm having trouble generating the rubric")

----------------------------------------------------------------------------
(* chains.ts: the prerequisite checks of createChainForStep; FALSE is a throw *)

createChainForStep(s, step) ==
  CASE step = TASK_IDEAS -> TRUE
    [] step = FOCUS_TOPICS -> s.selectedTaskIdea # None
    [] step = PRODUCT_OPTIONS -> s.selectedTaskIdea # None
    [] step = REQUIREMENTS -> s.selectedTaskIdea # None
    [] step = RUBRIC ->
         s.selectedTaskIdea # None /\ OrEmptyString(s.requirements) # ""
    [] OTHER -> TRUE


----------------------------------------------------------------------------
(* Outcomes of a piece of code: the session afterwards and either the
   response it returns or the exception it throws (threw); caught names an
   exception that a catch on the way turned into the response *)

Outcome(s, resp) == [s |-> s, resp |-> resp, threw |-> "", caught |-> ""]
Throw(s, e) == [s |-> s, resp |-> NoResponse, threw |-> e, caught |-> ""]

\* try { ... } catch (error) { return resp }
Catch(o, resp) ==
  IF o.threw # "" THEN [s |-> o.s, resp |-> resp, threw |-> "", caught |-> o.threw]
  ELSE o

----------------------------------------------------------------------------
(* service.ts: the synchronous selection handlers.  Each takes the session
   and the numbers found in its input. *)

\* (variant: an element with the id asked for is made up)
find_MakeUp(list, id) == Some(Cand(id, "made up"))

\* Array.prototype.find
RECURSIVE find(_, _)
find(list, id) ==
  IF list = <<>> THEN None
  ELSE IF Head(list).id = id THEN Some(Head(list))
  ELSE find(Tail(list), id)

\* (variant: nothing is filtered out)
filter_KeepAll(list, ids) == list

\* Array.prototype.filter(x => ids.includes(x.id))
RECURSIVE filter(_, _)
filter(list, ids) ==
  IF list = <<>> THEN <<>>
  ELSE IF Head(list).id \in Range(ids) THEN <<Head(list)>> \o filter(Tail(list), ids)
  ELSE filter(Tail(list), ids)

\* selectedIds.join(', ') (or toString) followed by match(/\d+/g) and
\* parseInt: the digit runs of the rendered numbers, so a sign is lost
JoinMatchParse(ids) == [i \in DOMAIN ids |-> Abs(ids[i])]

handleSelectTaskIdea(s, numbers) ==
  IF numbers = <<>> THEN Outcome(s, Text("NoTaskNumber"))
  ELSE LET ideaId == numbers[1]
           selectedIdea == find(OrEmpty(s.taskIdeas), ideaId)
       IN IF selectedIdea = None
          THEN Outcome(s, Response("InvalidTaskNumber", <<ideaId>>, "", ""))
          ELSE Outcome(
                 setCurrentStep([s EXCEPT !.selectedTaskIdea = selectedIdea],
                                FOCUS_TOPICS),
                 Response("TaskSelected", <<selectedIdea[1].id>>,
                          selectedIdea[1].title, ""))

handleSelectFocusTopics(s, numbers) ==
  IF numbers = <<>> THEN Outcome(s, Text("NoTopicNumbers"))
  ELSE LET selectedTopics == filter(OrEmpty(s.focusTopics), numbers)
       IN IF Len(selectedTopics) = 0
          THEN Outcome(s, Text("InvalidTopicNumbers"))
          ELSE Outcome(
                 setCurrentStep(
                   [s EXCEPT !.selectedFocusTopics = Some(selectedTopics)],
                   PRODUCT_OPTIONS),
                 Response("TopicsSelected", Ids(selectedTopics), "", ""))

\* (variant: the cap is on the number of ids given)
handleSelectProductOptions_CapOnIds(s, numbers) ==
  IF numbers = <<>> THEN Outcome(s, Text("NoOptionNumbers"))
  ELSE LET selectedOptions == filter(OrEmpty(s.productOptions), numbers)
       IN IF Len(selectedOptions) = 0
          THEN Outcome(s, Text("InvalidOptionNumbers"))
          ELSE IF Len(numbers) > MaxProductOptions
          THEN Outcome(s, Text("TooManyOptions"))
          ELSE Outcome(
                 setCurrentStep(
                   [s EXCEPT !.selectedProductOptions = Some(selectedOptions)],
                   REQUIREMENTS),
                 Response("OptionsSelected", Ids(selectedOptions), "", ""))

handleSelectProductOptions(s, numbers) ==
  IF numbers = <<>> THEN Outcome(s, Text("NoOptionNumbers"))
  ELSE LET selectedOptions == filter(OrEmpty(s.productOptions), numbers)
       IN IF Len(selectedOptions) = 0
          THEN Outcome(s, Text("InvalidOptionNumbers"))
          ELSE IF Len(selectedOptions) > MaxProductOptions
          THEN Outcome(s, Text("TooManyOptions"))
          ELSE Outcome(
                 setCurrentStep(
                   [s EXCEPT !.selectedProductOptions = Some(selectedOptions)],
                   REQUIREMENTS),
                 Response("OptionsSelected", Ids(selectedOptions), "", ""))

\* the performanceTask object that handlePerformanceTaskCompleteStep builds
AssembleTask(s) ==
  LET idea == s.selectedTaskIdea
      requirements == OrEmptyString(s.requirements)
      rubricInfo == OrEmptyString(s.rubricInfo)
  IN [title |-> IF idea = None \/ idea[1].title = "" THEN "Performance Task"
                ELSE idea[1].title,
      requirements |-> requirements,
      successCriteria |-> requirements,
      suggestedFocusTopic |-> "",
      rubricTitle |-> "Performance Assessment Rubric",
      rubricCriteria |->
        <<[name |-> "Overall Performance", description |-> <<rubricInfo, "...">>,
           orderNumber |-> 0]>>]

\* (variant: updatePerformanceTaskUnit replaces the unit by the update)
handlePerformanceTaskCompleteStep_Replace(s) ==
  Outcome([s EXCEPT !.performanceTask = Some(AssembleTask(s)),
                    !.topic = "", !.unit = None],
          Response("Summary", <<>>, OrEmptyString(s.requirements),
                   OrEmptyString(s.rubricInfo)))

\* (variant: the assembly needs both texts and throws without them)
handlePerformanceTaskCompleteStep_Strict(s) ==
  Catch(IF OrEmptyString(s.requirements) = "" \/ OrEmptyString(s.rubricInfo) = ""
        THEN Throw(s, "Missing text")
        ELSE Outcome([s EXCEPT !.performanceTask = Some(AssembleTask(s))],
                     Response("Summary", <<>>, OrEmptyString(s.requirements),
                              OrEmptyString(s.rubricInfo))),
        Text("SummaryError"))

handlePerformanceTaskCompleteStep(s) ==
  Catch(Outcome([s EXCEPT !.performanceTask = Some(AssembleTask(s))],
                Response("Summary", <<>>, OrEmptyString(s.requirements),
                         OrEmptyString(s.rubricInfo))),
        Text("SummaryError"))

----------------------------------------------------------------------------
(* The completion service: what a call may return *)

AbsentId == MaxId + 1

CandList(ids, tag) == [i \in DOMAIN ids |-> Cand(ids[i], tag)]
UpTo(n) == [i \in 1..n |-> i]

\* results of the task-ideas chain: none, three ideas, or a different pair
TaskIdeasResults ==
  {<<>>, CandList(<<1, 2, 3>>, "A"), CandList(<<2, 3>>, "B")}

FocusTopicsResults ==
  {<<>>, CandList(<<1, 2, 3>>, "A"), CandList(<<2, 3>>, "B")}

\* the product-options chain may return more than the four options asked for
ProductOptionsResults ==
  {<<>>, CandList(UpTo(MaxId), "A"), CandList(UpTo(MaxProductOptions), "B")}

\* the requirements and rubric chains end in a StringOutputParser
RequirementsResults == {"", "requirements A"}
RubricResults == {"", "rubric A"}

ChainResults(step) ==
  CASE step = TASK_IDEAS -> TaskIdeasResults
    [] step = FOCUS_TOPICS -> FocusTopicsResults
    [] step = PRODUCT_OPTIONS -> ProductOptionsResults
    [] step = REQUIREMENTS -> {<<r>> : r \in RequirementsResults}
    [] step = RUBRIC -> {<<r>> : r \in RubricResults}
    [] OTHER -> {}

\* what the model-based classifier may answer once parsed
LLMSelectedIds ==
  {None, Some(<<>>), Some(<<2>>), Some(<<0 - 1, 3>>), Some(<<AbsentId>>)}

LLMResults ==
  {ValidationResult(r, ids, MsgLLM) : r \in BOOLEAN, ids \in LLMSelectedIds}

\* (variant: the catch answers "ready" with a selection)
LLMFailure_Ready == ValidationResult(TRUE, Some(<<2>>), MsgLLMFail)

\* LLMStepValidator.validateStep's catch
LLMFailure == ValidationResult(FALSE, None, MsgLLMFail)

\* the messages a user sends
UserMessages ==
  {<<W("start"), W("with"), W("ideas")>>,
   <<Num(2)>>, <<Num(AbsentId)>>,
   <<Num(1), Num(3)>>,
   <<Num(AbsentId), Num(2)>>,
   <<Num(1), Num(2), Num(3), Num(4)>>,
   <<Num(1), Num(2), Num(3), Num(4), Num(5)>>,
   <<W("yes")>>,
   <<W("option"), Num(2), W("?")>>}

----------------------------------------------------------------------------
(* service.ts: processMessage *)

UserContent(m) == [msg |-> m, resp |-> NoResponse]
AssistantContent(r) == [msg |-> <<>>, resp |-> r]

\* A piece of processMessage either finishes with an outcome or suspends in
\* chain.invoke
Done(o) == [kind |-> "done", o |-> o]
Await(s) == [kind |-> "await", o |-> Outcome(s, NoResponse)]

\* a generate handler up to its await: the chain is built, then invoked
Generate(s, step) ==
  IF createChainForStep(s, step) THEN Await(s)
  ELSE Done(Throw(s, "MissingPrerequisite"))

\* (variant: the handlers have no catch of their own)
handlerCatch_None(step, o) == o

\* the catch inside handleRequirementsStep and handleRubricStep
handlerCatch(step, o) ==
  CASE step = REQUIREMENTS -> Catch(o, RequirementsError)
    [] step = RUBRIC -> Catch(o, RubricError)
    [] OTHER -> o

\* (variant: processMessage has no catch)
processMessageCatch_None(o) == o

\* the catch of processMessage
processMessageCatch(o) == Catch(o, GenericError)

\* (variant: REQUIREMENTS and RUBRIC generate only when the validation result
\* says "ready", and ask for clearer instructions otherwise)
Dispatch_AskFirst(s, step, val) ==
  LET selecting == val.isReadyForNextStep /\ val.selectedIds # None
      ids == OrEmpty(val.selectedIds)
      generate == Generate(s, step)
  IN CASE step = TASK_IDEAS ->
            IF selecting
            THEN IF ids = <<>> THEN Done(Throw(s, "TypeError"))
                 ELSE Done(handleSelectTaskIdea(s, JoinMatchParse(<<ids[1]>>)))
            ELSE generate
       [] step = FOCUS_TOPICS ->
            IF selecting THEN Done(handleSelectFocusTopics(s, JoinMatchParse(ids)))
            ELSE generate
       [] step = PRODUCT_OPTIONS ->
            IF selecting THEN Done(handleSelectProductOptions(s, JoinMatchParse(ids)))
            ELSE generate
       [] step \in {REQUIREMENTS, RUBRIC} ->
            IF ~val.isReadyForNextStep THEN Done(Outcome(s, GenericError))
            ELSE IF generate.kind = "done" THEN Done(handlerCatch(step, generate.o))
            ELSE generate
       [] step = PERFORMANCE_TASK_COMPLETE ->
            Done(handlePerformanceTaskCompleteStep(s))
       [] OTHER -> Done(Throw(s, "Unsupported step"))

\* the switch on currentStep, given the validation result
Dispatch(s, step, val) ==
  LET selecting == val.isReadyForNextStep /\ val.selectedIds # None
      ids == OrEmpty(val.selectedIds)
      generate == Generate(s, step)
  IN CASE step = TASK_IDEAS ->
            IF selecting
            THEN IF ids = <<>> THEN Done(Throw(s, "TypeError"))
                 ELSE Done(handleSelectTaskIdea(s, JoinMatchParse(<<ids[1]>>)))
            ELSE generate
       [] step = FOCUS_TOPICS ->
            IF selecting THEN Done(handleSelectFocusTopics(s, JoinMatchParse(ids)))
            ELSE generate
       [] step = PRODUCT_OPTIONS ->
            IF selecting THEN Done(handleSelectProductOptions(s, JoinMatchParse(ids)))
            ELSE generate
       [] step \in {REQUIREMENTS, RUBRIC} ->
            IF generate.kind = "done" THEN Done(handlerCatch(step, generate.o))
            ELSE generate
       [] step = PERFORMANCE_TASK_COMPLETE ->
            Done(handlePerformanceTaskCompleteStep(s))
       [] OTHER -> Done(Throw(s, "Unsupported step"))

\* (variant: new candidates are added to the ones already stored)
AfterChain_Merge(s, step, result) ==
  CASE step = TASK_IDEAS ->
         Outcome([s EXCEPT !.taskIdeas = Some(OrEmpty(@) \o result)],
                 Response("TaskIdeas", Ids(result), "", ""))
    [] step = FOCUS_TOPICS ->
         Outcome([s EXCEPT !.focusTopics = Some(OrEmpty(@) \o result)],
                 Response("FocusTopics", Ids(result), "", ""))
    [] step = PRODUCT_OPTIONS ->
         Outcome([s EXCEPT !.productOptions = Some(OrEmpty(@) \o result)],
                 Response("ProductOptions", Ids(result), "", ""))
    [] step = REQUIREMENTS ->
         IF result[1] = "" THEN Throw(s, "Empty result from requirements chain")
         ELSE Outcome(setCurrentStep([s EXCEPT !.requirements = Some(result[1])],
                                     RUBRIC),
                      Response("Requirements", <<>>, result[1], ""))
    [] step = RUBRIC ->
         Outcome(setCurrentStep([s EXCEPT !.rubricInfo = Some(result[1])],
                                PERFORMANCE_TASK_COMPLETE),
                 Response("Rubric", <<>>, result[1], ""))

\* the generate handlers after chain.invoke has returned result
AfterChain(s, step, result) ==
  CASE step = TASK_IDEAS ->
         Outcome([s EXCEPT !.taskIdeas = Some(result)],
                 Response("TaskIdeas", Ids(result), "", ""))
    [] step = FOCUS_TOPICS ->
         Outcome([s EXCEPT !.focusTopics = Some(result)],
                 Response("FocusTopics", Ids(result), "", ""))
    [] step = PRODUCT_OPTIONS ->
         Outcome([s EXCEPT !.productOptions = Some(result)],
                 Response("ProductOptions", Ids(result), "", ""))
    [] step = REQUIREMENTS ->
         IF result[1] = "" THEN Throw(s, "Empty result from requirements chain")
         ELSE Outcome(setCurrentStep([s EXCEPT !.requirements = Some(result[1])],
                                     RUBRIC),
                      Response("Requirements", <<>>, result[1], ""))
    [] step = RUBRIC ->
         Outcome(setCurrentStep([s EXCEPT !.rubricInfo = Some(result[1])],
                                PERFORMANCE_TASK_COMPLETE),
                 Response("Rubric", <<>>, result[1], ""))
    [] OTHER -> Throw(s, "Unsupported step")

----------------------------------------------------------------------------
(* Turns: the calls of processMessage in progress.  pc is "idle" (no call;
   the fields are those of the slot's last finished call), "awaitValidate"
   (suspended in validator.validateStep), "awaitChain" (suspended in
   chain.invoke) or "rejected" (the call threw to its caller).  err is the
   exception the turn caught, genCalls and clsCalls count its calls of
   chain.invoke and of the classifier's model. *)

IdleTurn ==
  [pc |-> "idle", sid |-> 0, msg |-> <<>>, step |-> "",
   val |-> ValidationResult(FALSE, None, ""), resp |-> NoResponse,
   err |-> "", genCalls |-> 0, clsCalls |-> 0]

Session(sid) == sessions[sid][1]

InFlight(t) == turns[t].pc \in {"awaitValidate", "awaitChain"}
Finished(t) == turns[t].pc = "idle" /\ turns[t].resp # NoResponse

\* (variant: all services share one memory)
EndTurn_Shared(t, tr, o) ==
  /\ sessions' = [ref \in SessionIds |->
                    IF sessions[ref] = None THEN None
                    ELSE Some(addMessage(o.s, "assistant",
                                         AssistantContent(o.resp)))]
  /\ turns' = [turns EXCEPT ![t] = [tr EXCEPT !.pc = "idle",
                                             !.resp = o.resp,
                                             !.err = o.caught]]

\* the end of processMessage: the response is appended and returned, unless
\* an exception is still on its way out
EndTurn(t, tr, o) ==
  IF o.threw # ""
  THEN /\ sessions' = [sessions EXCEPT ![tr.sid] = Some(o.s)]
       /\ turns' = [turns EXCEPT ![t] = [tr EXCEPT !.pc = "rejected",
                                                  !.err = o.threw]]
  ELSE /\ sessions' = [sessions EXCEPT
                         ![tr.sid] = Some(addMessage(o.s, "assistant",
                                                     AssistantContent(o.resp)))]
       /\ turns' = [turns EXCEPT ![t] = [tr EXCEPT !.pc = "idle",
                                                  !.resp = o.resp,
                                                  !.err = o.caught]]

\* the classifier has answered val: run the switch
Classified(t, tr, s, val) ==
  LET d == Dispatch(s, tr.step, val)
      tv == [tr EXCEPT !.val = val]
  IN IF d.kind = "done" THEN EndTurn(t, tv, processMessageCatch(d.o))
     ELSE /\ sessions' = [sessions EXCEPT ![tr.sid] = Some(d.o.s)]
          /\ turns' = [turns EXCEPT
                         ![t] = [tv EXCEPT !.pc = "awaitChain", !.genCalls = 1]]

\* processMessage is called: the user message is appended, currentStep is
\* read, and the validator is called; the rule-based one answers at once
StartTurn(t, sid, msg) ==
  /\ ~InFlight(t)
  /\ sessions[sid] # None
  /\ LET s == addMessage(Session(sid), "user", UserContent(msg))
         tr == [IdleTurn EXCEPT !.sid = sid, !.msg = msg, !.step = s.currentStep]
     IN IF s.validatorType = "simple"
        THEN Classified(t, tr, s, SimpleValidateStep(msg))
        ELSE /\ sessions' = [sessions EXCEPT ![sid] = Some(s)]
             /\ turns' = [turns EXCEPT
                            ![t] = [tr EXCEPT !.pc = "awaitValidate",
                                              !.clsCalls = 1]]

\* LLMStepValidator.validateStep returns a parsed answer
ValidateReturns(t) ==
  /\ turns[t].pc = "awaitValidate"
  /\ \E val \in LLMResults :
       Classified(t, turns[t], Session(turns[t].sid), val)

\* LLMStepValidator.validateStep catches a failed call or parse
ValidateFails(t) ==
  /\ turns[t].pc = "awaitValidate"
  /\ Classified(t, turns[t], Session(turns[t].sid), LLMFailure)

\* chain.invoke returns a result
ChainReturns(t) ==
  /\ turns[t].pc = "awaitChain"
  /\ \E result \in ChainResults(turns[t].step) :
       EndTurn(t, turns[t],
               processMessageCatch(
                 handlerCatch(turns[t].step,
                              AfterChain(Session(turns[t].sid), turns[t].step,
                                         result))))

\* (variant: a failed call is invoked once more before giving up)
ChainFails_Retry(t) ==
  /\ turns[t].pc = "awaitChain"
  /\ IF turns[t].genCalls < 2
     THEN /\ turns' = [turns EXCEPT ![t] = [@ EXCEPT !.genCalls = @ + 1]]
          /\ UNCHANGED sessions
     ELSE EndTurn(t, turns[t],
                  processMessageCatch(
                    handlerCatch(turns[t].step,
                                 Throw(Session(turns[t].sid),
                                       "CompletionServiceError"))))

\* chain.invoke throws
ChainFails(t) ==
  /\ turns[t].pc = "awaitChain"
  /\ EndTurn(t, turns[t],
             processMessageCatch(
               handlerCatch(turns[t].step,
                            Throw(Session(turns[t].sid), "CompletionServiceError"))))

----------------------------------------------------------------------------
(* route.ts: the session table, the requests and the responses *)

\* the session ids clients use
RouteIds == {"a", "b"}

\* activeSessions maps a session id to the service object stored for it,
\* a reference into sessions; 0 is no entry
NoSessions == [id \in RouteIds |-> 0]

\* the body of a request; "" and <<>> are a missing or empty parameter,
\* which the route does not tell apart
Request(method, sessionId, message, topic, unitTitle, gradeName, summary) ==
  [method |-> method, sessionId |-> sessionId, message |-> message,
   topic |-> topic, unitTitle |-> unitTitle, gradeName |-> gradeName,
   isPerformanceTaskSummaryRequest |-> summary]

NoRequest == Request("", "", <<>>, "", "", "", FALSE)

\* NextResponse.json(body, {status}), with the request it answers;
\* status 0 is no response
HttpResponse(status, message, error, performanceTask, state, req) ==
  [status |-> status, message |-> message, error |-> error,
   performanceTask |-> performanceTask, state |-> state, req |-> req]

HttpError(status, error, req) ==
  HttpResponse(status, NoResponse, error, None, None, req)

\* http.sent is the response the last step sent, http.open[t] the request
\* whose handler is suspended in processMessage call t
NoHttp ==
  [sent |-> HttpResponse(0, NoResponse, "", None, None, NoRequest),
   open |-> [t \in TurnIds |-> NoRequest]]

Sends(res) == [sent |-> res, open |-> http.open]

\* PerformanceTaskMemory.toJSON, which getState returns
getState(s) ==
  [performanceTaskUnit |->
     [topic |-> s.topic, unit |-> s.unit, currentStep |-> s.currentStep,
      performanceTask |-> s.performanceTask],
   conversationHistory |-> s.conversationHistory]

\* obj[key] of JavaScript: undefined when the object has no such property
Prop(obj, key) == IF key \in DOMAIN obj THEN Some(obj[key]) ELSE None

\* initialize's return value
Greeting(unitTitle) == Response("Greeting", <<>>, unitTitle, "")

\* (variant: a session is created whenever a topic is given)
ShouldCreate_Overwrite(session, topic) == topic # ""

\* (variant: a session is created whenever none is found)
ShouldCreate_NoTopic(session, topic) == session = 0

\* !session && topic
ShouldCreate(session, topic) == session = 0 /\ topic # ""

\* currentStep === PerformanceTaskStepType.PERFORMANCE_TASK_COMPLETE
IsFinalStep(currentStep) == currentStep = Some(PERFORMANCE_TASK_COMPLETE)

\* (variant: a performance task is built and included whatever the step)
PostResponse_Always(response, s, req) ==
  HttpResponse(200, response, "", Some(AssembleTask(s)), None, req)

\* the response after processMessage has returned response
PostResponse(response, s, req) ==
  LET state == getState(s)
      currentStep == Prop(state, "currentStep")
      performanceTask == Prop(state, "performanceTask")
  IN IF IsFinalStep(currentStep)
     THEN HttpResponse(200, response, "",
                       IF performanceTask = None THEN None
                       ELSE performanceTask[1],
                       None, req)
     ELSE HttpResponse(200, response, "", None, None, req)

\* the message handed to processMessage
MessageToProcess(s, req) ==
  IF req.isPerformanceTaskSummaryRequest
     /\ ~IsFinalStep(Prop(getState(s), "currentStep"))
  THEN <<W("yes")>>
  ELSE req.message

\* what the route sends once call t has returned or thrown
AfterProcessMessage(t, req) ==
  IF turns'[t].pc = "rejected"
  THEN HttpResponse(500, Text("RouteError"), "Message processing failed",
                    None, None, req)
  ELSE PostResponse(turns'[t].resp, sessions'[turns'[t].sid][1], req)

\* the reference new PerformanceTaskService(topic) yields
FreeRefs == {ref \in SessionIds : sessions[ref] = None}
NewRef == CHOOSE ref \in FreeRefs : \A other \in FreeRefs : ref <= other

PostNotFound ==
  "Session not found. Please create a new session with a topic, unitTitle, and gradeName."

\* POST answers at once, leaving the services as they are
PostReplies(t, res) ==
  /\ http' = Sends(res)
  /\ turns' = [turns EXCEPT ![t] = IdleTurn]
  /\ UNCHANGED <<sessions, activeSessions>>

\* POST: from the arrival of the request to the response or to the first
\* suspension of processMessage
Post(t, req) ==
  /\ ~InFlight(t)
  /\ req.method = "POST"
  /\ IF req.sessionId = ""
     THEN PostReplies(t, HttpError(400, "Missing sessionId parameter", req))
     ELSE LET session == activeSessions[req.sessionId]
          IN IF ShouldCreate(session, req.topic)
             THEN /\ FreeRefs # {}
                  /\ activeSessions' =
                       [activeSessions EXCEPT ![req.sessionId] = NewRef]
                  /\ turns' = [turns EXCEPT ![t] = IdleTurn]
                  /\ IF req.unitTitle # "" /\ req.gradeName # ""
                     THEN /\ sessions' =
                               [sessions EXCEPT ![NewRef] =
                                  Some(initialize(NewSession(req.topic, "simple"),
                                                  req.unitTitle, req.gradeName))]
                          /\ http' = Sends(HttpResponse(
                                             200, Greeting(req.unitTitle), "",
                                             None, None, req))
                     ELSE /\ sessions' =
                               [sessions EXCEPT ![NewRef] =
                                  Some(NewSession(req.topic, "simple"))]
                          /\ http' = Sends(HttpError(
                                             400,
                                             "Missing unitTitle or gradeName parameters",
                                             req))
             ELSE IF session = 0
             THEN PostReplies(t, HttpError(404, PostNotFound, req))
             ELSE IF req.message # <<>>
             THEN /\ StartTurn(t, session,
                               MessageToProcess(Session(session), req))
                  /\ UNCHANGED activeSessions
                  /\ http' =
                       IF turns'[t].pc = "awaitChain"
                       THEN [sent |-> NoHttp.sent,
                             open |-> [http.open EXCEPT ![t] = req]]
                       ELSE Sends(AfterProcessMessage(t, req))
             ELSE PostReplies(t, HttpError(400, "Missing message parameter", req))

\* chain.invoke returns or throws in a call the route awaits: processMessage
\* ends and the route responds
PostContinues(t, returned) ==
  /\ IF returned THEN ChainReturns(t) ELSE ChainFails(t)
  /\ UNCHANGED activeSessions
  /\ http' = [sent |-> AfterProcessMessage(t, http.open[t]),
              open |-> [http.open EXCEPT ![t] = NoRequest]]

\* GET
Get(req) ==
  /\ req.method = "GET"
  /\ http' = Sends(
       IF req.sessionId = ""
       THEN HttpError(400, "Missing sessionId parameter", req)
       ELSE IF activeSessions[req.sessionId] = 0
       THEN HttpError(404, "Session not found", req)
       ELSE HttpResponse(200, NoResponse, "", None,
                         Some(getState(Session(activeSessions[req.sessionId]))),
                         req))
  /\ UNCHANGED <<sessions, turns, activeSessions>>

----------------------------------------------------------------------------
(* Specifications *)

ValidatorTypes == {"simple", "llm"}

\* one service, constructed and initialized
Init ==
  /\ \E v \in ValidatorTypes :
       sessions = [sid \in SessionIds |->
                     IF sid = 1
                     THEN Some(initialize(NewSession("Space Exploration", v),
                                          "Mars Missions", "6th"))
                     ELSE None]
  /\ turns = [t \in TurnIds |-> IdleTurn]
  /\ activeSessions = NoSessions
  /\ http = NoHttp

\* turns one after another: a call starts when no call is in progress
StartSequential ==
  /\ \A t \in TurnIds : turns[t].pc = "idle"
  /\ \E msg \in UserMessages : StartTurn(1, 1, msg)

Next ==
  \/ StartSequential /\ UNCHANGED routeVars
  \/ \E t \in TurnIds : ValidateReturns(t) /\ UNCHANGED routeVars
  \/ \E t \in TurnIds : ValidateFails(t) /\ UNCHANGED routeVars
  \/ \E t \in TurnIds : ChainReturns(t) /\ UNCHANGED routeVars
  \/ \E t \in TurnIds : ChainFails(t) /\ UNCHANGED routeVars

Spec == Init /\ [][Next]_vars

\* the service as the curriculum route constructs it (the default validator)
InitConc ==
  /\ sessions = [sid \in SessionIds |->
                   IF sid = 1
                   THEN Some(initialize(NewSession("Space Exploration", "simple"),
                                        "Mars Missions", "6th"))
                   ELSE None]
  /\ turns = [t \in TurnIds |-> IdleTurn]
  /\ activeSessions = [NoSessions EXCEPT !["a"] = 1]
  /\ http = NoHttp

ConcMessages == {<<W("start"), W("with"), W("ideas")>>, <<Num(2)>>}

\* overlapping turns: the route starts a call while others are suspended
StartOverlapping ==
  \E t \in TurnIds :
    /\ \A u \in TurnIds : u < t => InFlight(u)
    /\ \E msg \in ConcMessages : StartTurn(t, 1, msg)

NextConc ==
  \/ StartOverlapping /\ UNCHANGED routeVars
  \/ \E t \in TurnIds : ChainReturns(t) /\ UNCHANGED routeVars
  \/ \E t \in TurnIds : ChainFails(t) /\ UNCHANGED routeVars

SpecConc == InitConc /\ [][NextConc]_vars

----------------------------------------------------------------------------
(* The memory through its public interface: setCurrentStep is public and
   takes any step, so a holder of the memory can put the session in a step
   whose slots were never written; turns then run one after another *)

\* memory.setCurrentStep(step), called between turns; the direct calls are
\* followed up to the first candidate set the session stores
SetCurrentStepCall(step) ==
  /\ \A t \in TurnIds : turns[t].pc = "idle"
  /\ Session(1).taskIdeas = None
  /\ sessions' = [sessions EXCEPT ![1] = Some(setCurrentStep(Session(1), step))]
  /\ UNCHANGED turns

StartPlain ==
  /\ \A t \in TurnIds : turns[t].pc = "idle"
  /\ \E msg \in ConcMessages : StartTurn(1, 1, msg)

NextMemory ==
  \/ (\E step \in Range(StepOrder) : SetCurrentStepCall(step)) /\ UNCHANGED routeVars
  \/ StartPlain /\ UNCHANGED routeVars
  \/ \E t \in TurnIds : ChainReturns(t) /\ UNCHANGED routeVars
  \/ \E t \in TurnIds : ChainFails(t) /\ UNCHANGED routeVars

SpecMemory == InitConc /\ [][NextMemory]_vars

----------------------------------------------------------------------------
(* The rule-based classifier on its own: every message of up to MaxMsgLen
   tokens over Vocabulary is classified *)

Vocabulary ==
  {W("yes"), W("YES"), W("i"), W("like"), W("option"), Num(2), Num(3),
   Glued("option", 2), W("change"), W("can"), W("you"), W("update"),
   W("select"), W("not"), W("good"), W("hello"), W("?")}

AllMessages == UNION {[1..n -> Vocabulary] : n \in 0..MaxMsgLen}

InitClassifier ==
  /\ sessions = [sid \in SessionIds |-> None]
  /\ \E m \in AllMessages :
       turns = [t \in TurnIds |->
                  IF t = 1 THEN [IdleTurn EXCEPT !.pc = "classify", !.msg = m]
                  ELSE IdleTurn]
  /\ activeSessions = NoSessions
  /\ http = NoHttp

\* SimpleRuleValidator.validateStep is applied to the message
Classify ==
  /\ turns[1].pc = "classify"
  /\ turns' = [turns EXCEPT ![1] = [@ EXCEPT !.pc = "classified",
                                             !.val = SimpleValidateStep(turns[1].msg)]]
  /\ UNCHANGED sessions

NextClassifier == Classify /\ UNCHANGED routeVars

SpecClassifier == InitClassifier /\ [][NextClassifier]_vars

----------------------------------------------------------------------------
(* The route: requests arrive for two session ids *)

Topic1 == "Space Exploration"
Topic2 == "Oceans"

StartWithIdeas == <<W("start"), W("with"), W("ideas")>>

Creating(id, topic, unitTitle, gradeName) ==
  Request("POST", id, <<>>, topic, unitTitle, gradeName, FALSE)
Messaging(id, message) == Request("POST", id, message, "", "", "", FALSE)

\* the requests clients send: creating requests, complete or without a
\* unitTitle; messages; a summary request; a creating request that carries a
\* message; requests without a session id or with nothing but one
PostRequests ==
  {Creating("a", Topic1, "Mars Missions", "6th"),
   Creating("b", Topic1, "Mars Missions", "6th"),
   Creating("a", Topic2, "Tides", "7th"),
   Creating("a", Topic1, "", "6th"),
   Messaging("a", StartWithIdeas),
   Messaging("a", <<Num(2)>>),
   Messaging("b", <<Num(2)>>),
   Request("POST", "a", <<Num(2)>>, "", "", "", TRUE),
   Request("POST", "a", <<Num(2)>>, Topic2, "Tides", "7th", FALSE),
   Messaging("", <<Num(2)>>),
   Messaging("a", <<>>)}

GetRequests ==
  {Request("GET", id, <<>>, "", "", "", FALSE) : id \in RouteIds \cup {""}}

InitRoute ==
  /\ sessions = [ref \in SessionIds |-> None]
  /\ turns = [t \in TurnIds |-> IdleTurn]
  /\ activeSessions = NoSessions
  /\ http = NoHttp

\* a request arrives while no call of processMessage is in progress
PostSequential ==
  /\ \A t \in TurnIds : ~InFlight(t)
  /\ \E req \in PostRequests : Post(1, req)

GetSequential ==
  /\ \A t \in TurnIds : ~InFlight(t)
  /\ \E req \in GetRequests : Get(req)

NextRoute ==
  \/ PostSequential
  \/ GetSequential
  \/ \E t \in TurnIds : PostContinues(t, TRUE)
  \/ \E t \in TurnIds : PostContinues(t, FALSE)

SpecRoute == InitRoute /\ [][NextRoute]_vars

\* requests for one session id that overlap: a request arrives while the
\* handlers of earlier ones are suspended in processMessage
OverlappingRequests ==
  {Creating("a", Topic1, "Mars Missions", "6th"),
   Request("POST", "a", StartWithIdeas, Topic2, "Tides", "7th", FALSE),
   Messaging("a", StartWithIdeas)}

PostOverlapping ==
  \E t \in TurnIds :
    /\ \A u \in TurnIds : u < t => InFlight(u)
    /\ \E req \in OverlappingRequests : Post(t, req)

NextRouteConc ==
  \/ PostOverlapping
  \/ \E t \in TurnIds : PostContinues(t, TRUE)
  \/ \E t \in TurnIds : PostContinues(t, FALSE)

SpecRouteConc == InitRoute /\ [][NextRouteConc]_vars

\* two sessions side by side: the requests of each session id come one
\* after another, those of different ids in any order
SlotOf(id) == IF id = "a" THEN 1 ELSE 2

TwoSessionRequests ==
  {Creating("a", Topic1, "Mars Missions", "6th"),
   Creating("b", Topic2, "Tides", "7th"),
   Messaging("a", StartWithIdeas),
   Messaging("a", <<Num(2)>>),
   Messaging("b", StartWithIdeas)}

PostInterleaved ==
  \E req \in TwoSessionRequests : Post(SlotOf(req.sessionId), req)

NextTwoSessions ==
  \/ PostInterleaved
  \/ \E t \in TurnIds : PostContinues(t, TRUE)
  \/ \E t \in TurnIds : PostContinues(t, FALSE)

SpecTwoSessions == InitRoute /\ [][NextTwoSessions]_vars

----------------------------------------------------------------------------
(* Vocabulary of the properties *)

\* the session without its transcript
Slots(s) == [s EXCEPT !.conversationHistory = <<>>]

CandidateSlot(s, step) ==
  CASE step = TASK_IDEAS -> s.taskIdeas
    [] step = FOCUS_TOPICS -> s.focusTopics
    [] step = PRODUCT_OPTIONS -> s.productOptions
    [] OTHER -> None

\* selectedTaskIdea holds one candidate, the other two slots a list
SelectedSlot(s, step) ==
  CASE step = TASK_IDEAS -> s.selectedTaskIdea
    [] step = FOCUS_TOPICS -> s.selectedFocusTopics
    [] step = PRODUCT_OPTIONS -> s.selectedProductOptions
    [] OTHER -> None

CandidateIds(s, step) == Range(Ids(OrEmpty(CandidateSlot(s, step))))

\* the turn's message was taken as a selection of at least one id
Selection(tr) ==
  /\ tr.val.isReadyForNextStep
  /\ tr.val.selectedIds # None
  /\ tr.val.selectedIds[1] # <<>>

\* the ids of the selection, as the handlers read them
SelectedNumbers(tr) == JoinMatchParse(tr.val.selectedIds[1])

\* this step ends a turn of slot t with a response
TurnEnds(t) == turns'[t].pc = "idle" /\ turns'[t].resp # NoResponse

Before == Session(1)
After == sessions'[1][1]

InvalidNumberKinds ==
  {"InvalidTaskNumber", "InvalidTopicNumbers", "InvalidOptionNumbers"}

----------------------------------------------------------------------------
(* A cooperative run: turns one after another on one session, where the user
   keeps asking for candidates, selects from the candidates shown whenever
   that is possible again and again, every call settles, and the completion
   service, called again and again, returns a non-empty result *)

\* the user sends a message that makes the step's generation call
UserAsks ==
  /\ StartPlain
  /\ turns'[1].pc = "awaitChain"
  /\ UNCHANGED routeVars

\* the user sends ids of the current candidate set and the step advances
UserSelects ==
  /\ StartPlain
  /\ turns'[1].step \in SelectableSteps
  /\ StepIndex(After.currentStep) = StepIndex(Before.currentStep) + 1
  /\ UNCHANGED routeVars

\* the awaited call settles: chain.invoke returns or throws
Settles ==
  /\ \E t \in TurnIds : ChainReturns(t) \/ ChainFails(t)
  /\ UNCHANGED routeVars

\* the call returns a non-empty result: candidates to select from,
\* respectively a text
ServiceDelivers ==
  /\ \E t \in TurnIds :
       /\ ChainReturns(t)
       /\ turns'[t].resp.ids # <<>> \/ turns'[t].resp.a # ""
  /\ UNCHANGED routeVars

NextLive ==
  \/ StartPlain /\ UNCHANGED routeVars
  \/ \E t \in TurnIds : ChainReturns(t) /\ UNCHANGED routeVars
  \/ \E t \in TurnIds : ChainFails(t) /\ UNCHANGED routeVars

SpecLive ==
  /\ InitConc
  /\ [][NextLive]_vars
  /\ WF_vars(UserAsks)
  /\ WF_vars(Settles)
  /\ SF_vars(ServiceDelivers)
  /\ SF_vars(UserSelects)

----------------------------------------------------------------------------
(* C1: under sequential turns currentStep never moves back and never skips
   a step: while a turn is suspended it is the step the turn read at its
   start, and once the turn has ended it is that step or its immediate
   successor in StepOrder. *)
C1_StepAdvancesByAtMostOne ==
  \A t \in TurnIds :
    turns[t].step # "" =>
      LET d == StepIndex(Session(turns[t].sid).currentStep) - StepIndex(turns[t].step)
      IN IF turns[t].pc = "idle" THEN d \in {0, 1} ELSE d = 0

C1_Witness ==
  /\ Finished(1)
  /\ turns[1].step = RUBRIC
  /\ Session(1).currentStep = PERFORMANCE_TASK_COMPLETE

(* C2: turns on one session are serialized: no state has two turns of the
   same session both between their user-message append and their
   assistant-message append. *)
C2_TurnsSerialized ==
  \A t \in TurnIds : \A u \in TurnIds :
    (InFlight(t) /\ InFlight(u) /\ turns[t].sid = turns[u].sid) => t = u

C2_Witness ==
  /\ InFlight(1) /\ InFlight(2)
  /\ turns[1].sid = turns[2].sid
  /\ turns[2].step = TASK_IDEAS
  /\ Len(Session(1).conversationHistory) = 2
  /\ Session(1).conversationHistory[1].role = "user"
  /\ Session(1).conversationHistory[2].role = "user"

(* C3: once currentStep is COMPLETE, a turn leaves the stored
   performanceTask as it was and calls neither the classifier's model nor a
   chain. *)
C3_CompleteIsIdempotent ==
  [][\A sid \in SessionIds :
       (sessions[sid] # None
        /\ sessions[sid][1].currentStep = PERFORMANCE_TASK_COMPLETE) =>
         /\ sessions'[sid][1].performanceTask = sessions[sid][1].performanceTask
         /\ \A t \in TurnIds :
              (turns'[t].sid = sid
               /\ turns'[t].step = PERFORMANCE_TASK_COMPLETE) =>
                turns'[t].genCalls + turns'[t].clsCalls = 0]_vars

C3_Witness ==
  /\ Finished(1)
  /\ turns[1].step = PERFORMANCE_TASK_COMPLETE
  /\ turns[1].resp.kind = "Summary"
  /\ turns[1].clsCalls = 1
  /\ Session(1).performanceTask # None

(* C4, as stated: in a selectable step a selection whose ids are all absent
   from the candidate set does not advance, leaves the selected and the
   candidate slot unchanged, makes no call of the completion service at all
   and answers with a "select a valid number" response. *)
C4_AbsentSelection(calls(_)) ==
  (TurnEnds(1)
   /\ turns'[1].step \in SelectableSteps
   /\ Selection(turns'[1])
   /\ \A n \in Range(SelectedNumbers(turns'[1])) :
        n \notin CandidateIds(Before, turns'[1].step)) =>
    /\ After.currentStep = Before.currentStep
    /\ SelectedSlot(After, turns'[1].step) = SelectedSlot(Before, turns'[1].step)
    /\ CandidateSlot(After, turns'[1].step) = CandidateSlot(Before, turns'[1].step)
    /\ calls(turns'[1]) = 0
    /\ turns'[1].resp.kind \in InvalidNumberKinds

AllCalls(tr) == tr.genCalls + tr.clsCalls
GenerationCalls(tr) == tr.genCalls

C4_AbsentSelectionMakesNoCall == [][C4_AbsentSelection(AllCalls)]_vars

(* C4, amended: as above, but the call it excludes is the generation call;
   with the model-based classifier the classification itself is a call of
   the completion service. *)
C4_AbsentSelectionRejected == [][C4_AbsentSelection(GenerationCalls)]_vars

C4_Witness ==
  /\ Finished(1)
  /\ turns[1].step = FOCUS_TOPICS
  /\ Session(1).focusTopics # None
  /\ Session(1).focusTopics[1] # <<>>
  /\ turns[1].resp.kind = "InvalidTopicNumbers"

(* C5: in PRODUCT_OPTIONS a selection of 5 distinct ids of the candidate
   set does not advance and does not write selectedProductOptions; one of
   exactly 4 distinct ids of the candidate set stores the 4 candidates with
   those ids and advances to REQUIREMENTS. *)
C5_ProductOptionsCap ==
  [][(TurnEnds(1)
      /\ turns'[1].step = PRODUCT_OPTIONS
      /\ Selection(turns'[1])
      /\ Range(SelectedNumbers(turns'[1])) \subseteq
           CandidateIds(Before, PRODUCT_OPTIONS)) =>
       LET chosen == Range(SelectedNumbers(turns'[1]))
       IN /\ Cardinality(chosen) = 5 =>
               /\ After.currentStep = PRODUCT_OPTIONS
               /\ After.selectedProductOptions = Before.selectedProductOptions
               /\ turns'[1].resp.kind = "TooManyOptions"
          /\ Cardinality(chosen) = 4 =>
               /\ After.currentStep = REQUIREMENTS
               /\ After.selectedProductOptions # None
               /\ Len(After.selectedProductOptions[1]) = 4
               /\ Range(Ids(After.selectedProductOptions[1])) = chosen
               /\ Range(After.selectedProductOptions[1]) \subseteq
                    Range(Before.productOptions[1])]_vars

C5_Witness ==
  /\ Finished(1)
  /\ turns[1].step = PRODUCT_OPTIONS
  /\ Selection(turns[1])
  /\ Cardinality(Range(SelectedNumbers(turns[1]))) = 5
  /\ turns[1].resp.kind = "TooManyOptions"
  /\ Session(1).currentStep = PRODUCT_OPTIONS

(* C6: the rule-based classifier answers "not ready", with no selectedIds,
   for every input that matches a refinement pattern, also when the input
   matches a proceed pattern or holds numbers. *)
C6_RefinementOverridesProceed ==
  (turns[1].pc = "classified" /\ matchesRefinement(toLowerCase(turns[1].msg))) =>
    /\ ~turns[1].val.isReadyForNextStep
    /\ turns[1].val.selectedIds = None

C6_Witness ==
  /\ turns[1].pc = "classified"
  /\ matchesRefinement(toLowerCase(turns[1].msg))
  /\ matchesProceed(toLowerCase(turns[1].msg))
  /\ ExtractNumbers(turns[1].msg) # <<>>
  /\ ~turns[1].val.isReadyForNextStep

(* C7: with the rule-based classifier, in TASK_IDEAS with no candidates
   yet, a message that is not a selection and whose generation call succeeds
   stores a non-empty taskIdeas set and does not advance; and a message that
   is the one id k of a stored candidate advances to FOCUS_TOPICS with
   selectedTaskIdea the candidate whose id is k. *)
C7_GeneratesNonEmptyThenSelects ==
  [][(TurnEnds(1) /\ turns'[1].step = TASK_IDEAS
      /\ Before.validatorType = "simple") =>
       /\ (Before.taskIdeas = None /\ ~Selection(turns'[1])
           /\ turns'[1].genCalls = 1 /\ turns'[1].err = "") =>
            /\ After.taskIdeas # None
            /\ After.taskIdeas[1] # <<>>
            /\ turns'[1].resp =
                 Response("TaskIdeas", Ids(After.taskIdeas[1]), "", "")
            /\ After.currentStep = TASK_IDEAS
            /\ After.selectedTaskIdea = None
       /\ \A k \in CandidateIds(Before, TASK_IDEAS) :
            turns'[1].msg = <<Num(k)>> =>
              /\ After.currentStep = FOCUS_TOPICS
              /\ After.selectedTaskIdea # None
              /\ After.selectedTaskIdea[1].id = k
              /\ After.selectedTaskIdea[1] \in Range(Before.taskIdeas[1])
              /\ After.taskIdeas = Before.taskIdeas]_vars

\* the first turn of a session has stored the empty array the chain returned
C7_Witness ==
  /\ Finished(1)
  /\ Session(1).validatorType = "simple"
  /\ turns[1].step = TASK_IDEAS
  /\ turns[1].genCalls = 1
  /\ turns[1].err = ""
  /\ turns[1].resp = Response("TaskIdeas", <<>>, "", "")
  /\ Session(1).taskIdeas = Some(<<>>)
  /\ Session(1).currentStep = TASK_IDEAS

(* C8: a turn in REQUIREMENTS whose generation fails leaves currentStep at
   REQUIREMENTS and every slot as it was and answers with the requirements
   apology; a turn in REQUIREMENTS whose generation succeeds, a resubmission
   after a failure included, stores the result and advances to RUBRIC. *)
C8_RequirementsFailureKeepsStep ==
  [][(TurnEnds(1) /\ turns'[1].step = REQUIREMENTS) =>
       /\ turns'[1].genCalls = 1
       /\ turns'[1].err # "" =>
            /\ Slots(After) = Slots(Before)
            /\ After.currentStep = REQUIREMENTS
            /\ turns'[1].resp = RequirementsError
       /\ turns'[1].err = "" =>
            /\ After.currentStep = RUBRIC
            /\ After.requirements # None
            /\ After.requirements[1] # ""
            /\ turns'[1].resp = Response("Requirements", <<>>, After.requirements[1], "")
            /\ Slots(After) = [Slots(Before) EXCEPT
                                 !.currentStep = RUBRIC,
                                 !.requirements = After.requirements]]_vars

C8_Witness ==
  /\ Finished(1)
  /\ turns[1].step = REQUIREMENTS
  /\ turns[1].err = "CompletionServiceError"
  /\ turns[1].resp = RequirementsError
  /\ Session(1).currentStep = REQUIREMENTS
  /\ Session(1).requirements = None

(* C9: a failed generation call in TASK_IDEAS, FOCUS_TOPICS, PRODUCT_OPTIONS
   or RUBRIC ends the turn with a fixed apology, leaves currentStep and
   every slot as they were, and is not retried. *)
C9_GenerationFailureIsCaught ==
  [][(\E t \in TurnIds : turns[t].pc = "awaitChain"
                         /\ turns[t].step \in SelectableSteps \cup {RUBRIC}
                         /\ turns'[t] # turns[t]
                         /\ turns'[t].err = "CompletionServiceError") =>
       /\ TurnEnds(1)
       /\ turns'[1].genCalls = 1
       /\ turns'[1].resp =
            (IF turns'[1].step = RUBRIC THEN RubricError ELSE GenericError)
       /\ Slots(After) = Slots(Before)]_vars

C9_Witness ==
  /\ Finished(1)
  /\ turns[1].step = FOCUS_TOPICS
  /\ turns[1].err = "CompletionServiceError"
  /\ turns[1].resp = GenericError
  /\ Session(1).currentStep = FOCUS_TOPICS

(* C10: processMessage never throws to its caller: whatever the classifier,
   the chain factory or the completion service do, no call is rejected;
   every turn that ends has returned a text that is the last entry of the
   transcript, and a turn that caught an error leaves currentStep and the
   slots as they were, so that the next turn starts from a usable state. *)
C10_NeverThrows ==
  [][/\ \A t \in TurnIds : turns'[t].pc # "rejected"
     /\ TurnEnds(1) =>
          /\ turns'[1].resp.kind # ""
          /\ After.conversationHistory # <<>>
          /\ After.conversationHistory[Len(After.conversationHistory)] =
               [role |-> "assistant",
                content |-> AssistantContent(turns'[1].resp)]
          /\ turns'[1].err # "" =>
               /\ Slots(After) = Slots(Before)
               /\ After.currentStep = turns'[1].step]_vars

C10_Witness ==
  /\ Finished(1)
  /\ turns[1].err = "TypeError"
  /\ turns[1].resp = GenericError

(* C11: whenever a turn ends with currentStep at COMPLETE, the turn that
   moves from RUBRIC to COMPLETE included, performanceTask is stored; and it
   is assembled once: a turn assembles it only when none is stored yet. *)
Assembles(tr) ==
  tr.step = PERFORMANCE_TASK_COMPLETE /\ tr.resp.kind = "Summary"

C11_SummaryStoredOnComplete ==
  [][TurnEnds(1) =>
       /\ After.currentStep = PERFORMANCE_TASK_COMPLETE =>
            After.performanceTask # None
       /\ Assembles(turns'[1]) => Before.performanceTask = None]_vars

\* the turn that moved from RUBRIC to COMPLETE has ended and nothing is stored
C11_Witness ==
  /\ Finished(1)
  /\ turns[1].step = RUBRIC
  /\ turns[1].resp.kind = "Rubric"
  /\ Session(1).currentStep = PERFORMANCE_TASK_COMPLETE
  /\ Session(1).performanceTask = None

(* C13: under sequential turns a selected slot is populated only if the
   candidate slot of its step holds at least one candidate, and everything
   selected is one of those candidates. *)
Selected(s, step) ==
  IF step = TASK_IDEAS THEN s.selectedTaskIdea ELSE OrEmpty(SelectedSlot(s, step))

C13_SelectedAmongCandidates ==
  \A step \in SelectableSteps :
    SelectedSlot(Session(1), step) # None =>
      /\ OrEmpty(CandidateSlot(Session(1), step)) # <<>>
      /\ Range(Selected(Session(1), step)) \subseteq
           Range(OrEmpty(CandidateSlot(Session(1), step)))

C13_Witness ==
  /\ Session(1).selectedFocusTopics # None
  /\ Len(Session(1).selectedFocusTopics[1]) = 2
  /\ Session(1).selectedProductOptions # None
  /\ Len(Session(1).productOptions[1]) > Len(Session(1).selectedProductOptions[1])

(* C12: a response to a message request carries performanceTask only if
   the session's currentStep is COMPLETE after the turn; after a turn in any
   other step the field is absent. *)
C12_SummaryOnlyWhenComplete ==
  LET req == http.sent.req
  IN (http.sent.status = 200 /\ req.method = "POST" /\ req.message # <<>>
      /\ http.sent.message.kind # "Greeting") =>
       /\ activeSessions[req.sessionId] # 0
       /\ http.sent.performanceTask # None =>
            Session(activeSessions[req.sessionId]).currentStep =
              PERFORMANCE_TASK_COMPLETE

C12_Witness ==
  /\ http.sent.status = 200
  /\ http.sent.message.kind = "Requirements"
  /\ http.sent.req.sessionId = "a"
  /\ Session(activeSessions["a"]).currentStep = RUBRIC
  /\ http.sent.performanceTask = None

(* C14: creation is atomic with initialization: every session in the table
   has its unit title and grade set, and a request the route rejects leaves
   the table as it was. *)
C14_CreationIsAtomic ==
  [][/\ \A id \in RouteIds :
          activeSessions'[id] # 0 =>
            sessions'[activeSessions'[id]][1].unit # None
     /\ http'.sent.status \in {400, 404} =>
          activeSessions' = activeSessions]_vars

\* a creating request without unitTitle was rejected and its session stored
C14_Witness ==
  /\ http.sent.status = 400
  /\ http.sent.error = "Missing unitTitle or gradeName parameters"
  /\ http.sent.req.sessionId = "a"
  /\ activeSessions["a"] # 0
  /\ Session(activeSessions["a"]).unit = None
  /\ Session(activeSessions["a"]).currentStep = TASK_IDEAS

IsCreation(req) ==
  /\ req.method = "POST" /\ req.sessionId \in RouteIds
  /\ req.topic # "" /\ req.unitTitle # "" /\ req.gradeName # ""

(* C15, as stated: a creation request for a session id that is already in
   the table overwrites the session: afterwards the id maps to a fresh
   session at TASK_IDEAS with the new topic and an empty transcript. *)
C15_CreationOverwrites ==
  [][\A req \in PostRequests :
       (IsCreation(req) /\ activeSessions[req.sessionId] # 0 /\ Post(1, req)) =>
         sessions'[activeSessions'[req.sessionId]] =
           Some(initialize(NewSession(req.topic, "simple"),
                           req.unitTitle, req.gradeName))]_vars

(* C15, amended: a creation request for a session id that is already in the
   table creates nothing: the id keeps its session, with its topic and unit;
   the request is handled as a message request, its message processed by
   that session, or answered "Missing message parameter" when it has none. *)
C15_CreationKeepsExisting ==
  [][\A req \in PostRequests :
       (IsCreation(req) /\ activeSessions[req.sessionId] # 0 /\ Post(1, req)) =>
         LET ref == activeSessions[req.sessionId]
         IN /\ activeSessions' = activeSessions
            /\ sessions'[ref][1].topic = sessions[ref][1].topic
            /\ sessions'[ref][1].unit = sessions[ref][1].unit
            /\ \A other \in SessionIds \ {ref} : sessions'[other] = sessions[other]
            /\ IF req.message = <<>>
               THEN /\ sessions' = sessions
                    /\ http'.sent = HttpError(400, "Missing message parameter", req)
               ELSE /\ turns'[1].sid = ref
                    /\ turns'[1].msg = req.message
                    /\ turns'[1].step = sessions[ref][1].currentStep]_vars

C15_Witness ==
  /\ IsCreation(http.sent.req)
  /\ http.sent.req.sessionId = "a"
  /\ http.sent.req.topic = Topic2
  /\ http.sent.status = 200
  /\ http.sent.message.kind = "TaskSelected"
  /\ Session(activeSessions["a"]).topic = Topic1
  /\ Session(activeSessions["a"]).currentStep = FOCUS_TOPICS

(* C17: a POST without topic or a GET for a session id that is not in the
   table is answered with the not-found failure, creates no session and
   changes no session. *)
C17_UnknownSessionNotFound ==
  [][\A req \in PostRequests \cup GetRequests :
       (req.sessionId \in RouteIds /\ activeSessions[req.sessionId] = 0
        /\ req.topic = "" /\ (Post(1, req) \/ Get(req))) =>
         /\ http'.sent.status = 404
         /\ http'.sent.error =
              (IF req.method = "POST" THEN PostNotFound ELSE "Session not found")
         /\ http'.sent.message = NoResponse
         /\ http'.sent.state = None
         /\ http'.sent.req = req
         /\ activeSessions' = activeSessions
         /\ sessions' = sessions]_vars

C17_Witness ==
  /\ http.sent.status = 404
  /\ http.sent.req.method = "POST"
  /\ http.sent.req.sessionId = "b"
  /\ http.sent.req.message # <<>>
  /\ activeSessions["b"] = 0
  /\ activeSessions["a"] # 0

(* C18: topic, unit title and grade of a session never change once it is in
   the table: neither a message turn nor a later request carrying other
   values for its id changes them. *)
C18_UnitFieldsImmutable ==
  [][\A id \in RouteIds :
       activeSessions[id] # 0 =>
         /\ activeSessions'[id] = activeSessions[id]
         /\ sessions'[activeSessions[id]][1].topic =
              sessions[activeSessions[id]][1].topic
         /\ sessions'[activeSessions[id]][1].unit =
              sessions[activeSessions[id]][1].unit]_vars

C18_Witness ==
  /\ http.sent.req.sessionId = "a"
  /\ http.sent.req.topic = Topic2
  /\ http.sent.req.unitTitle = "Tides"
  /\ http.sent.req.message = <<>>
  /\ activeSessions["a"] # 0
  /\ Session(activeSessions["a"]).topic = Topic1
  /\ Session(activeSessions["a"]).unit =
       Some([title |-> "Mars Missions", grade |-> "6th"])
  /\ Session(activeSessions["a"]).currentStep = PERFORMANCE_TASK_COMPLETE

(* C19: the transcript only grows by appending, and under sequential turns
   a call of processMessage appends two entries: the user message when it
   starts, before the step is read and the classifier is called, and the
   assistant entry with the text it returns when it ends, on every path. *)
UserEntry(tr) == [role |-> "user", content |-> UserContent(tr.msg)]
AssistantEntry(tr) == [role |-> "assistant", content |-> AssistantContent(tr.resp)]

C19_TranscriptAppendOnly ==
  [][LET h == Before.conversationHistory
         starts == turns[1].pc = "idle"
         ends == turns'[1].pc = "idle"
         u == <<UserEntry(turns'[1])>>
         a == <<AssistantEntry(turns'[1])>>
     IN /\ turns'[1].pc # "rejected"
        /\ After.conversationHistory =
             LastN(h \o (IF starts THEN u ELSE <<>>) \o (IF ends THEN a ELSE <<>>),
                   HistWindow)
        /\ starts => turns'[1].step = Before.currentStep
        /\ ends => /\ turns'[1].resp # NoResponse
                   /\ LastN(After.conversationHistory, 2) = u \o a
        /\ ~ends => LastN(After.conversationHistory, 1) = u]_vars

\* a turn that caught an error has ended with both entries appended
C19_Witness ==
  /\ Finished(1)
  /\ turns[1].err = "CompletionServiceError"
  /\ turns[1].clsCalls = 1
  /\ Session(1).conversationHistory =
       <<UserEntry(turns[1]), AssistantEntry(turns[1])>>
  /\ turns[1].resp = RubricError

(* C16: there is one session instance per session id, also when creating
   requests for the id arrive while others are in progress: a table entry is
   never replaced, no two ids share an instance, every instance is in the
   table, and every call of processMessage in progress works on the instance
   the table holds for its request's id. *)
C16_OneInstancePerId ==
  [][/\ \A id \in RouteIds :
          activeSessions[id] # 0 => activeSessions'[id] = activeSessions[id]
     /\ \A id \in RouteIds : \A other \in RouteIds :
          (activeSessions'[id] # 0 /\ activeSessions'[id] = activeSessions'[other])
            => id = other
     /\ \A ref \in SessionIds :
          sessions'[ref] # None => \E id \in RouteIds : activeSessions'[id] = ref
     /\ \A t \in TurnIds :
          turns'[t].pc = "awaitChain" =>
            /\ http'.open[t].sessionId \in RouteIds
            /\ turns'[t].sid = activeSessions'[http'.open[t].sessionId]]_vars

\* a creating request for "a" is in progress on the instance another
\* request is working on
C16_Witness ==
  /\ InFlight(1) /\ InFlight(2)
  /\ IsCreation(http.open[2])
  /\ http.open[2].sessionId = "a"
  /\ turns[1].sid = activeSessions["a"]
  /\ turns[2].sid = activeSessions["a"]
  /\ Session(activeSessions["a"]).topic = Topic1

(* C20: sessions are independent: a step changes at most the one session
   its request is for; every other session, and the suspended call working
   on it, stay exactly as they were, however the turns of the two sessions
   interleave. *)
C20_SessionsIndependent ==
  [][\A ref \in SessionIds :
       sessions'[ref] # sessions[ref] =>
         /\ \A other \in SessionIds \ {ref} : sessions'[other] = sessions[other]
         /\ \A id \in RouteIds :
              activeSessions'[id] # ref =>
                /\ activeSessions'[id] = activeSessions[id]
                /\ turns'[SlotOf(id)] = turns[SlotOf(id)]
                /\ http'.open[SlotOf(id)] = http.open[SlotOf(id)]
         /\ \E id \in RouteIds :
              /\ activeSessions'[id] = ref
              /\ \/ sessions[ref] = None
                 \/ turns'[SlotOf(id)].sid = ref]_vars

\* a turn of "a" has ended while a call for "b" stays suspended
C20_Witness ==
  /\ InFlight(2)
  /\ Finished(1)
  /\ turns[1].sid = activeSessions["a"]
  /\ turns[2].sid = activeSessions["b"]
  /\ turns[1].sid # turns[2].sid
  /\ Session(turns[1].sid).currentStep = FOCUS_TOPICS
  /\ Session(turns[2].sid).currentStep = TASK_IDEAS
  /\ http.sent.req.sessionId = "a"
  /\ http.open[2].sessionId = "b"

(* C22: the rule-based classifier answers an input that matches no proceed
   pattern and no refinement pattern with "not ready", the request for
   clearer instructions as its message, and no selectedIds. *)
C22_UnmatchedIsDefault ==
  (/\ turns[1].pc = "classified"
   /\ ~matchesProceed(toLowerCase(turns[1].msg))
   /\ ~matchesRefinement(toLowerCase(turns[1].msg))) =>
    /\ ~turns[1].val.isReadyForNextStep
    /\ turns[1].val.message = MsgDefault
    /\ turns[1].val.selectedIds = None

C22_Witness ==
  /\ turns[1].pc = "classified"
  /\ turns[1].msg = <<W("hello"), W("select")>>
  /\ ~matchesProceed(toLowerCase(turns[1].msg))
  /\ ~matchesRefinement(toLowerCase(turns[1].msg))
  /\ turns[1].val = ValidationResult(FALSE, None, MsgDefault)

(* C23: with the model-based classifier, a classification whose call or
   parse failed is answered "not ready" with no selectedIds, and the turn in
   which this happens, if it is in a selectable step, makes the generation
   call, leaves currentStep at that step and leaves the step's selected slot
   as it was, at every step of the turn up to its end. *)
C23_ClassifierFailureNeverSelects ==
  [][turns'[1].val.message = MsgLLMFail =>
       /\ ~turns'[1].val.isReadyForNextStep
       /\ turns'[1].val.selectedIds = None
       /\ turns'[1].clsCalls = 1
       /\ turns'[1].step \in SelectableSteps =>
            /\ turns'[1].genCalls = 1
            /\ After.currentStep = turns'[1].step
            /\ SelectedSlot(After, turns'[1].step) =
                 SelectedSlot(Before, turns'[1].step)
            /\ \A step \in SelectableSteps :
                 SelectedSlot(After, step) = SelectedSlot(Before, step)]_vars

C23_Witness ==
  /\ Finished(1)
  /\ turns[1].val = ValidationResult(FALSE, None, MsgLLMFail)
  /\ turns[1].step = FOCUS_TOPICS
  /\ turns[1].msg = <<Num(2)>>
  /\ Session(1).focusTopics = Some(CandList(<<1, 2, 3>>, "A"))
  /\ Session(1).selectedFocusTopics = None
  /\ Session(1).currentStep = FOCUS_TOPICS

(* C24 as stated: in REQUIREMENTS and in RUBRIC every turn makes one
   generation call whatever the validation result; when the call returns,
   the output is stored and currentStep advances (to RUBRIC, respectively
   PERFORMANCE_TASK_COMPLETE), and when the call fails currentStep is
   unchanged. *)
C24_EveryMessageGeneratesAndAdvances ==
  [][(TurnEnds(1) /\ turns'[1].step \in {REQUIREMENTS, RUBRIC}) =>
       /\ turns'[1].genCalls = 1
       /\ turns'[1].err = "CompletionServiceError" =>
            After.currentStep = turns'[1].step
       /\ turns'[1].err # "CompletionServiceError" =>
            IF turns'[1].step = REQUIREMENTS
            THEN After.currentStep = RUBRIC /\ After.requirements # None
            ELSE /\ After.currentStep = PERFORMANCE_TASK_COMPLETE
                 /\ After.rubricInfo # None]_vars

(* C24: in REQUIREMENTS and in RUBRIC every turn makes one generation call
   whatever the validation result (ready, not ready, or the classifier's
   failure answer).  When the call fails, currentStep and the slots are
   unchanged and the step's apology is returned.  In REQUIREMENTS a call
   that returns the empty text is treated as a failed one; a call that
   returns a non-empty text stores it and advances to RUBRIC.  In RUBRIC a
   call that returns stores its output, empty or not, and advances to
   PERFORMANCE_TASK_COMPLETE. *)
C24_EveryMessageGenerates ==
  [][(TurnEnds(1) /\ turns'[1].step \in {REQUIREMENTS, RUBRIC}) =>
       /\ turns'[1].genCalls = 1
       /\ turns'[1].err \in {"", "CompletionServiceError",
                             "Empty result from requirements chain"}
       /\ turns'[1].err = "Empty result from requirements chain" =>
            turns'[1].step = REQUIREMENTS
       /\ turns'[1].err # "" =>
            /\ Slots(After) = Slots(Before)
            /\ turns'[1].resp =
                 (IF turns'[1].step = REQUIREMENTS THEN RequirementsError
                  ELSE RubricError)
       /\ (turns'[1].err = "" /\ turns'[1].step = REQUIREMENTS) =>
            /\ After.requirements # None
            /\ After.requirements[1] # ""
            /\ Slots(After) = [Slots(Before) EXCEPT
                                 !.currentStep = RUBRIC,
                                 !.requirements = After.requirements]
       /\ (turns'[1].err = "" /\ turns'[1].step = RUBRIC) =>
            /\ After.rubricInfo # None
            /\ Slots(After) = [Slots(Before) EXCEPT
                                 !.currentStep = PERFORMANCE_TASK_COMPLETE,
                                 !.rubricInfo = After.rubricInfo]]_vars

C24_Witness ==
  /\ Finished(1)
  /\ turns[1].step = RUBRIC
  /\ turns[1].val = ValidationResult(FALSE, None, MsgLLMFail)
  /\ turns[1].genCalls = 1
  /\ turns[1].err = ""
  /\ Session(1).rubricInfo = Some("rubric A")
  /\ Session(1).currentStep = PERFORMANCE_TASK_COMPLETE

(* C25: under sequential turns from an initialized session the chain
   factory's prerequisite check never fails, and in every reachable state
   the slots the current step requires are present: at or after FOCUS_TOPICS
   selectedTaskIdea is set, at or after PRODUCT_OPTIONS selectedFocusTopics
   is non-empty, at or after REQUIREMENTS selectedProductOptions holds 1 to 4
   elements, at or after RUBRIC requirements is a non-empty text, and in
   PERFORMANCE_TASK_COMPLETE rubricInfo is set. *)
C25_PrerequisitesPresent ==
  LET s == Session(1)
      at(step) == StepIndex(s.currentStep) >= StepIndex(step)
  IN /\ at(FOCUS_TOPICS) => s.selectedTaskIdea # None
     /\ at(PRODUCT_OPTIONS) => OrEmpty(s.selectedFocusTopics) # <<>>
     /\ at(REQUIREMENTS) => Len(OrEmpty(s.selectedProductOptions)) \in 1..4
     /\ at(RUBRIC) => OrEmptyString(s.requirements) # ""
     /\ at(PERFORMANCE_TASK_COMPLETE) => s.rubricInfo # None
     /\ s.currentStep # PERFORMANCE_TASK_COMPLETE =>
          createChainForStep(s, s.currentStep)
     /\ \A t \in TurnIds : turns[t].err # "MissingPrerequisite"

C25_Witness ==
  /\ Session(1).currentStep = PERFORMANCE_TASK_COMPLETE
  /\ Session(1).selectedTaskIdea # None
  /\ Len(OrEmpty(Session(1).selectedFocusTopics)) = 1
  /\ Len(OrEmpty(Session(1).selectedProductOptions)) = 4
  /\ Session(1).requirements = Some("requirements A")
  /\ Session(1).rubricInfo = Some("")

(* C21: the memory's step setter enforces the forward-only order: a call that
   asks for a step earlier in StepOrder than the current one leaves
   currentStep as it was. *)
C21_SetterRefusesEarlierStep ==
  [][\A step \in Range(StepOrder) :
       (SetCurrentStepCall(step)
        /\ StepIndex(step) < StepIndex(Before.currentStep)) =>
         After.currentStep = Before.currentStep]_vars

C21_Witness ==
  /\ \A t \in TurnIds : turns[t].pc = "idle"
  /\ Session(1).currentStep = TASK_IDEAS
  /\ Session(1).performanceTask # None

(* C26: when a turn that is not a selection starts in a step one of whose
   required slots is absent, so that the chain factory is asked for the
   step's chain and throws, the turn is not rejected: no generation call is
   made, the turn returns a fixed error text (the general one in the
   selectable steps, the step's own apology in REQUIREMENTS and RUBRIC),
   the text is the last entry of the transcript, and currentStep and every
   slot are as they were. *)
C26_MissingPrerequisiteIsCaught ==
  [][(turns[1].pc = "idle" /\ turns'[1] # turns[1]
      /\ ~createChainForStep(Before, Before.currentStep)
      /\ ~(/\ Before.currentStep \in SelectableSteps
           /\ turns'[1].val.isReadyForNextStep
           /\ turns'[1].val.selectedIds # None)) =>
       /\ TurnEnds(1)
       /\ turns'[1].err = "MissingPrerequisite"
       /\ turns'[1].genCalls = 0
       /\ turns'[1].resp =
            (CASE turns'[1].step = REQUIREMENTS -> RequirementsError
               [] turns'[1].step = RUBRIC -> RubricError
               [] OTHER -> GenericError)
       /\ LastN(After.conversationHistory, 1) = <<AssistantEntry(turns'[1])>>
       /\ Slots(After) = Slots(Before)]_vars

C26_Witness ==
  /\ Finished(1)
  /\ turns[1].step = PRODUCT_OPTIONS
  /\ turns[1].err = "MissingPrerequisite"
  /\ turns[1].resp = GenericError
  /\ Session(1).currentStep = PRODUCT_OPTIONS
  /\ Session(1).selectedTaskIdea = None
  /\ Session(1).productOptions = None

(* C27: a turn in PERFORMANCE_TASK_COMPLETE never fails and always stores a
   summary object, whatever the requirements and rubricInfo slots hold
   (absent and empty included): the title falls back to "Performance Task",
   the requirements and successCriteria fields are the requirements text or
   the empty text, and rubricCriteria is the one default criterion "Overall
   Performance"; nothing else in the session changes. *)
C27_SummaryAlwaysAssembled ==
  [][(TurnEnds(1) /\ turns'[1].step = PERFORMANCE_TASK_COMPLETE
      /\ ~\E step \in Range(StepOrder) : SetCurrentStepCall(step)) =>
       /\ turns'[1].err = ""
       /\ turns'[1].resp.kind = "Summary"
       /\ After.performanceTask # None
       /\ LET task == After.performanceTask[1]
          IN /\ task.title # ""
             /\ Before.selectedTaskIdea = None => task.title = "Performance Task"
             /\ task.requirements = OrEmptyString(Before.requirements)
             /\ task.successCriteria = OrEmptyString(Before.requirements)
             /\ task.suggestedFocusTopic = ""
             /\ task.rubricTitle = "Performance Assessment Rubric"
             /\ Len(task.rubricCriteria) = 1
             /\ task.rubricCriteria[1].name = "Overall Performance"
             /\ task.rubricCriteria[1].orderNumber = 0
             /\ task.rubricCriteria[1].description =
                  <<OrEmptyString(Before.rubricInfo), "...">>
       /\ Slots(After) = [Slots(Before) EXCEPT
                            !.performanceTask = After.performanceTask]]_vars

C27_Witness ==
  /\ Finished(1)
  /\ turns[1].step = PERFORMANCE_TASK_COMPLETE
  /\ turns[1].resp.kind = "Summary"
  /\ Session(1).requirements = None
  /\ Session(1).rubricInfo = None
  /\ Session(1).selectedTaskIdea = None
  /\ Session(1).performanceTask # None
  /\ Session(1).performanceTask[1].title = "Performance Task"
  /\ Session(1).performanceTask[1].requirements = ""

(* C28: when the generation call of a turn in a selectable step returns, the
   step's candidate slot is replaced as a whole: afterwards it holds exactly
   the list the call returned (the one whose ids the response shows), with
   no element of the previous list that the call did not return, and no
   other slot and not currentStep has changed.  This holds also when the
   turn overlaps another one. *)
C28_RegenerationReplaces ==
  [][\A t \in TurnIds :
       (/\ turns[t].pc = "awaitChain"
        /\ turns'[t].pc = "idle"
        /\ turns'[t].err = ""
        /\ turns'[t].step \in SelectableSteps) =>
         LET step == turns'[t].step
             slot == CandidateSlot(After, step)
         IN /\ slot # None
            /\ slot[1] \in ChainResults(step)
            /\ Ids(slot[1]) = turns'[t].resp.ids
            /\ \A old \in Range(OrEmpty(CandidateSlot(Before, step))) :
                 old \in Range(slot[1]) =>
                   old.id \in Range(turns'[t].resp.ids)
            /\ \A other \in SelectableSteps :
                 /\ other # step =>
                      CandidateSlot(After, other) = CandidateSlot(Before, other)
                 /\ SelectedSlot(After, other) = SelectedSlot(Before, other)
            /\ After.currentStep = Before.currentStep
            /\ After.requirements = Before.requirements
            /\ After.rubricInfo = Before.rubricInfo
            /\ After.performanceTask = Before.performanceTask]_vars

C28_Witness ==
  /\ Finished(1) /\ Finished(2)
  /\ turns[1].step = TASK_IDEAS /\ turns[2].step = TASK_IDEAS
  /\ turns[2].resp = Response("TaskIdeas", <<1, 2, 3>>, "", "")
  /\ turns[1].resp = Response("TaskIdeas", <<2, 3>>, "", "")
  /\ LastN(Session(1).conversationHistory, 1) = <<AssistantEntry(turns[1])>>
  /\ Session(1).taskIdeas = Some(CandList(<<2, 3>>, "B"))

(* C30: also when turns of one session overlap, currentStep never takes a
   value earlier in StepOrder than the value it had: a REQUIREMENTS
   generation that returns after the session has reached
   PERFORMANCE_TASK_COMPLETE does not set it back to RUBRIC. *)
C30_StepNeverMovesBack ==
  [][StepIndex(After.currentStep) >= StepIndex(Before.currentStep)]_vars

C30_Witness ==
  /\ Finished(1)
  /\ turns[1].step = REQUIREMENTS
  /\ turns[1].err = ""
  /\ Session(1).currentStep = RUBRIC
  /\ Session(1).rubricInfo # None
  /\ LastN(Session(1).conversationHistory, 1) = <<AssistantEntry(turns[1])>>

(* C29: in a cooperative run (sequential turns, every call settles, the
   completion service called again and again returns a non-empty result, and
   the user again and again asks for candidates and selects ids of the
   current candidate set), from every reachable state in which the session
   is not yet in PERFORMANCE_TASK_COMPLETE it eventually gets there. *)
C29_EventuallyComplete ==
  (Session(1).currentStep # PERFORMANCE_TASK_COMPLETE)
    ~> (Session(1).currentStep = PERFORMANCE_TASK_COMPLETE)

C29_Witness ==
  /\ Finished(1)
  /\ turns[1].step = RUBRIC
  /\ turns[1].msg = <<Num(2)>>
  /\ Session(1).currentStep = PERFORMANCE_TASK_COMPLETE
  /\ Session(1).selectedTaskIdea = Some(Cand(2, "B"))
  /\ Ids(OrEmpty(Session(1).selectedProductOptions)) = <<2>>
  /\ Session(1).requirements = Some("requirements A")
  /\ Session(1).rubricInfo = Some("rubric A")

(* C31: in every reachable state, those reached by overlapping turns of one
   session included, a selected slot that is set holds only elements of the
   stored candidate list of its step: selectedTaskIdea is one of taskIdeas,
   selectedFocusTopics are among focusTopics and selectedProductOptions
   among productOptions; a generation that returns after a selection was
   made does not replace the candidates under the selection. *)
C31_SelectionAmongCandidatesWhenOverlapping ==
  \A sid \in SessionIds :
    sessions[sid] # None =>
      \A step \in SelectableSteps :
        SelectedSlot(Session(sid), step) # None =>
          Range(Selected(Session(sid), step)) \subseteq
            Range(OrEmpty(CandidateSlot(Session(sid), step)))

C31_Witness ==
  /\ Session(1).selectedTaskIdea = Some(Cand(2, "A"))
  /\ Session(1).taskIdeas = Some(CandList(<<2, 3>>, "B"))
  /\ Finished(1)
  /\ turns[1].step = TASK_IDEAS
  /\ turns[1].resp = Response("TaskIdeas", <<2, 3>>, "", "")
  /\ StepIndex(Session(1).currentStep) > StepIndex(TASK_IDEAS)

\* the turn's message was marked "ready" and no id was extracted from it: by
\* the rule-based classifier a proceed match without a number, by the
\* model-based one an answer without selectedIds or with an empty list
ReadyWithoutIds(s, tr) ==
  IF s.validatorType = "simple"
  THEN /\ matchesProceed(toLowerCase(tr.msg))
       /\ ~matchesRefinement(toLowerCase(tr.msg))
       /\ ExtractNumbers(toLowerCase(tr.msg)) = <<>>
  ELSE /\ tr.val.isReadyForNextStep
       /\ OrEmpty(tr.val.selectedIds) = <<>>

(* C32: in a selectable step a turn whose message is marked
   "ready" with no ids never advances currentStep, never writes a selected
   slot, and makes the generation call of the step. *)
C32_ReadyWithoutIdsGenerates ==
  [][(TurnEnds(1) /\ turns'[1].step \in SelectableSteps
      /\ ReadyWithoutIds(Before, turns'[1])) =>
       /\ After.currentStep = turns'[1].step
       /\ \A step \in SelectableSteps :
            SelectedSlot(After, step) = SelectedSlot(Before, step)
       /\ turns'[1].genCalls = 1]_vars

C32_Witness ==
  /\ Finished(1)
  /\ Session(1).validatorType = "llm"
  /\ turns[1].val = ValidationResult(TRUE, Some(<<>>), MsgLLM)
  /\ turns[1].step = TASK_IDEAS
  /\ turns[1].genCalls = 0
  /\ turns[1].err = "TypeError"
  /\ turns[1].resp = GenericError
  /\ Session(1).currentStep = TASK_IDEAS

(* C33: in FOCUS_TOPICS a selection advances to PRODUCT_OPTIONS if and only
   if at least one of its ids is the id of a candidate; selectedFocusTopics
   is then exactly the candidates whose id occurs in the selection, in
   candidate order and each once, and the answer lists these alone: ids
   that are not in the candidate set are dropped and not reported. *)
C33_MixedSelectionKeepsPresentIds ==
  [][(TurnEnds(1) /\ turns'[1].step = FOCUS_TOPICS /\ Selection(turns'[1])) =>
       LET numbers == Range(SelectedNumbers(turns'[1]))
           candidates == OrEmpty(Before.focusTopics)
           matched == SelectSeq(candidates, LAMBDA c : c.id \in numbers)
       IN IF numbers \cap CandidateIds(Before, FOCUS_TOPICS) # {}
          THEN /\ After.currentStep = PRODUCT_OPTIONS
               /\ After.selectedFocusTopics = Some(matched)
               /\ turns'[1].resp = Response("TopicsSelected", Ids(matched), "", "")
               /\ Range(Ids(matched)) = numbers \cap CandidateIds(Before, FOCUS_TOPICS)
               /\ Cardinality(Range(matched)) = Len(matched)
               /\ turns'[1].genCalls = 0
          ELSE /\ After.currentStep = FOCUS_TOPICS
               /\ After.selectedFocusTopics = Before.selectedFocusTopics
               /\ turns'[1].resp.kind = "InvalidTopicNumbers"]_vars

C33_Witness ==
  /\ Finished(1)
  /\ turns[1].step = FOCUS_TOPICS
  /\ turns[1].msg = <<Num(AbsentId), Num(2)>>
  /\ Session(1).focusTopics = Some(CandList(<<1, 2, 3>>, "A"))
  /\ Session(1).selectedFocusTopics = Some(<<Cand(2, "A")>>)
  /\ Session(1).currentStep = PRODUCT_OPTIONS
  /\ turns[1].resp = Response("TopicsSelected", <<2>>, "", "")

(* C34: in PRODUCT_OPTIONS the cap of 4 is on the number of candidates the
   selection matches, not on the number of ids given: a selection of 5 or
   more ids of which 1 to 4 are ids of candidates advances to REQUIREMENTS
   with exactly the matched candidates, and a selection is refused as too
   large only when it matches more than 4 candidates. *)
C34_CapCountsMatchedOptions ==
  [][(TurnEnds(1) /\ turns'[1].step = PRODUCT_OPTIONS /\ Selection(turns'[1])) =>
       LET numbers == SelectedNumbers(turns'[1])
           candidates == OrEmpty(Before.productOptions)
           matched == SelectSeq(candidates, LAMBDA c : c.id \in Range(numbers))
       IN /\ (Len(numbers) >= 5 /\ Len(matched) \in 1..4) =>
               /\ After.currentStep = REQUIREMENTS
               /\ After.selectedProductOptions = Some(matched)
               /\ turns'[1].resp = Response("OptionsSelected", Ids(matched), "", "")
          /\ turns'[1].resp.kind = "TooManyOptions" <=> Len(matched) > 4]_vars

C34_Witness ==
  /\ Finished(1)
  /\ turns[1].step = PRODUCT_OPTIONS
  /\ Len(turns[1].msg) = 5
  /\ Len(SelectedNumbers(turns[1])) = 5
  /\ Session(1).productOptions = Some(CandList(UpTo(4), "B"))
  /\ Session(1).selectedProductOptions = Some(CandList(UpTo(4), "B"))
  /\ Session(1).currentStep = REQUIREMENTS

(* C35: in TASK_IDEAS only the first id of a selection is used: the step
   advances to FOCUS_TOPICS if and only if the first id is the id of a
   candidate, selectedTaskIdea is then that candidate, and further ids have
   no effect: a selection whose first id is absent and whose second id is
   present does not advance and names the first id in its answer. *)
C35_OnlyFirstIdCounts ==
  [][(TurnEnds(1) /\ turns'[1].step = TASK_IDEAS /\ Selection(turns'[1])) =>
       LET first == SelectedNumbers(turns'[1])[1]
           candidates == OrEmpty(Before.taskIdeas)
       IN IF first \in CandidateIds(Before, TASK_IDEAS)
          THEN /\ After.currentStep = FOCUS_TOPICS
               /\ After.selectedTaskIdea # None
               /\ After.selectedTaskIdea[1].id = first
               /\ After.selectedTaskIdea[1] \in Range(candidates)
               /\ turns'[1].resp.kind = "TaskSelected"
          ELSE /\ After.currentStep = TASK_IDEAS
               /\ After.selectedTaskIdea = Before.selectedTaskIdea
               /\ turns'[1].resp = Response("InvalidTaskNumber", <<first>>, "", "")
               /\ turns'[1].genCalls = 0]_vars

C35_Witness ==
  /\ Finished(1)
  /\ turns[1].step = TASK_IDEAS
  /\ turns[1].msg = <<Num(AbsentId), Num(2)>>
  /\ Session(1).taskIdeas = Some(CandList(<<1, 2, 3>>, "A"))
  /\ Session(1).selectedTaskIdea = None
  /\ Session(1).currentStep = TASK_IDEAS
  /\ turns[1].resp = Response("InvalidTaskNumber", <<AbsentId>>, "", "")

(* C36: under sequential turns a selected slot is written at most once in
   the life of a session: it changes only in a turn of its own step that
   ends by advancing to the next step, it was unset before, and once set it
   is never changed by a later turn. *)
C36_SelectedSlotWrittenOnce ==
  [][\A step \in SelectableSteps :
       /\ SelectedSlot(Before, step) # None =>
            SelectedSlot(After, step) = SelectedSlot(Before, step)
       /\ SelectedSlot(After, step) # SelectedSlot(Before, step) =>
            /\ TurnEnds(1)
            /\ turns'[1].step = step
            /\ Before.currentStep = step
            /\ StepIndex(After.currentStep) = StepIndex(step) + 1]_vars

C36_Witness ==
  /\ Finished(1)
  /\ turns[1].step = PERFORMANCE_TASK_COMPLETE
  /\ turns[1].msg = <<Num(1), Num(3)>>
  /\ Session(1).selectedTaskIdea = Some(Cand(2, "A"))
  /\ Ids(OrEmpty(Session(1).selectedFocusTopics)) = <<2>>
  /\ Ids(OrEmpty(Session(1).selectedProductOptions)) = <<2>>

(* C37: when the session's currentStep is PERFORMANCE_TASK_COMPLETE after a
   message has been processed and a performanceTask has been assembled, the
   route's response carries that performanceTask. *)
C37_CompleteResponseCarriesTask ==
  LET req == http.sent.req
      ref == activeSessions[req.sessionId]
  IN (/\ http.sent.status = 200 /\ req.method = "POST" /\ req.message # <<>>
      /\ http.sent.message.kind # "Greeting"
      /\ ref # 0
      /\ Session(ref).currentStep = PERFORMANCE_TASK_COMPLETE
      /\ Session(ref).performanceTask # None) =>
       http.sent.performanceTask = Session(ref).performanceTask

C37_Witness ==
  /\ http.sent.status = 200
  /\ http.sent.req = Messaging("a", <<Num(2)>>)
  /\ http.sent.message.kind = "Summary"
  /\ Finished(1)
  /\ turns[1].step = PERFORMANCE_TASK_COMPLETE
  /\ Session(activeSessions["a"]).currentStep = PERFORMANCE_TASK_COMPLETE
  /\ Session(activeSessions["a"]).performanceTask # None
  /\ http.sent.performanceTask = None

(* C38: for a request flagged isPerformanceTaskSummaryRequest the message
   "yes" is processed in place of the user's only when the session is not
   yet in PERFORMANCE_TASK_COMPLETE; when it is, the user's own message is
   the one processed and recorded in the transcript. *)
C38_SummaryRequestKeepsMessageWhenComplete ==
  LET req == http.sent.req
  IN (/\ http.sent.status = 200 /\ req.method = "POST" /\ req.message # <<>>
      /\ req.isPerformanceTaskSummaryRequest
      /\ Finished(1)) =>
       /\ turns[1].msg =
            (IF turns[1].step = PERFORMANCE_TASK_COMPLETE THEN req.message
             ELSE <<W("yes")>>)
       /\ \E i \in DOMAIN Session(turns[1].sid).conversationHistory :
            Session(turns[1].sid).conversationHistory[i] = UserEntry(turns[1])

C38_Witness ==
  /\ http.sent.status = 200
  /\ http.sent.req = Request("POST", "a", <<Num(2)>>, "", "", "", TRUE)
  /\ Finished(1)
  /\ turns[1].step = PERFORMANCE_TASK_COMPLETE
  /\ turns[1].msg = <<W("yes")>>
  /\ LastN(Session(activeSessions["a"]).conversationHistory, 2) =
       <<[role |-> "user", content |-> UserContent(<<W("yes")>>)],
         AssistantEntry(turns[1])>>

-----------------------------------------------------------------------------
(* chains.ts: the prompt a chain is built with.  template names the step's
   template; the other fields are the values its placeholders are filled
   with.  A builder that throws builds no prompt. *)

NoPrompt ==
  [template |-> "", title |-> "", grade |-> "", idea |-> "",
   focusTopicsText |-> <<>>, productOptionsText |-> <<>>,
   requirements |-> "", userInput |-> <<>>, transcript |-> <<>>]

\* unit.unit || { title: "Unnamed Unit", grade: { name: "unspecified" } }
unitInfo(s) ==
  IF s.unit = None THEN [title |-> "Unnamed Unit", grade |-> "unspecified"]
  ELSE s.unit[1]

\* selected.map(x => `${x.id}. ${x.title}: ${x.description}`).join("\n")
OptionsText(selected) == OrEmpty(selected)

\* (variant: the transcript is handed to the template as well)
Prompt_WithTranscript(s, step, userInput) ==
  [NoPrompt EXCEPT !.template = step, !.userInput = userInput,
                   !.transcript = s.conversationHistory]

Prompt(s, step, userInput) ==
  LET idea == s.selectedTaskIdea[1].title
      p == [NoPrompt EXCEPT !.template = step, !.userInput = userInput]
  IN IF ~createChainForStep(s, step) THEN NoPrompt
     ELSE CASE step = TASK_IDEAS ->
                 [p EXCEPT !.title = unitInfo(s).title,
                           !.grade = unitInfo(s).grade]
            [] step = FOCUS_TOPICS -> [p EXCEPT !.idea = idea]
            [] step = PRODUCT_OPTIONS ->
                 [p EXCEPT !.idea = idea,
                           !.focusTopicsText = OptionsText(s.selectedFocusTopics)]
            [] step = REQUIREMENTS ->
                 [p EXCEPT !.idea = idea,
                           !.focusTopicsText = OptionsText(s.selectedFocusTopics),
                           !.productOptionsText =
                              OptionsText(s.selectedProductOptions)]
            [] step = RUBRIC ->
                 [p EXCEPT !.idea = idea,
                           !.requirements = OrEmptyString(s.requirements)]
            [] OTHER -> NoPrompt

\* what a prompt may read of the session: the unit and what was selected or
\* written so far
UnitState(s) ==
  [unit |-> s.unit,
   selectedTaskIdea |-> s.selectedTaskIdea,
   selectedFocusTopics |-> s.selectedFocusTopics,
   selectedProductOptions |-> s.selectedProductOptions,
   requirements |-> s.requirements]

\* the prompt of the chain call t is suspended in; calls on one session come
\* one after another, so the session is as it was when the chain was built
PromptOf(t) == Prompt(Session(turns[t].sid), turns[t].step, turns[t].msg)

-----------------------------------------------------------------------------
(* Services side by side on the same unit: call t belongs to service t, the
   calls of one service come one after another, those of different services
   in any order *)

InitPrompt ==
  /\ sessions = [sid \in SessionIds |->
                   Some(initialize(NewSession("Space Exploration", "simple"),
                                   "Mars Missions", "6th"))]
  /\ turns = [t \in TurnIds |-> IdleTurn]
  /\ activeSessions = NoSessions
  /\ http = NoHttp

StartOwn ==
  \E t \in TurnIds \cap SessionIds :
    \E msg \in ConcMessages : StartTurn(t, t, msg)

NextPrompt ==
  \/ StartOwn /\ UNCHANGED routeVars
  \/ \E t \in TurnIds : ChainReturns(t) /\ UNCHANGED routeVars
  \/ \E t \in TurnIds : ChainFails(t) /\ UNCHANGED routeVars

SpecPrompt == InitPrompt /\ [][NextPrompt]_vars

(* C39: the prompt built for a step depends only on the unit state (unit
   title, grade, selected slots, requirements) and the turn's user input,
   never on the transcript: two services suspended in the chain of the same
   step with the same input, whose sessions agree on the unit state, were
   given the same prompt, whatever their transcripts hold. *)
C39_PromptIgnoresTranscript ==
  \A t1 \in TurnIds, t2 \in TurnIds :
    (/\ turns[t1].pc = "awaitChain" /\ turns[t2].pc = "awaitChain"
     /\ turns[t1].step = turns[t2].step
     /\ turns[t1].msg = turns[t2].msg
     /\ UnitState(Session(turns[t1].sid)) = UnitState(Session(turns[t2].sid))) =>
       PromptOf(t1) = PromptOf(t2)

C39_Witness ==
  /\ turns[1].pc = "awaitChain" /\ turns[2].pc = "awaitChain"
  /\ turns[1].step = PRODUCT_OPTIONS /\ turns[2].step = PRODUCT_OPTIONS
  /\ turns[1].msg = turns[2].msg
  /\ UnitState(Session(1)) = UnitState(Session(2))
  /\ Session(1).selectedFocusTopics # None
  /\ Session(1).conversationHistory # Session(2).conversationHistory
  /\ PromptOf(1) = PromptOf(2)
  /\ PromptOf(1) # NoPrompt

-----------------------------------------------------------------------------
(* steps.ts and app/api/chat/route.ts: the chat path.  The service a call of
   processStepInput creates is reachable from that call alone; call t keeps
   its service at reference t, where it takes the place of the service of
   the call before. *)

ChatRequest(stepId, userInput, history) ==
  [stepId |-> stepId, userInput |-> userInput, history |-> history]

NoChatRequest == ChatRequest("", <<>>, <<>>)

NoChatHttp ==
  [sent |-> HttpResponse(0, NoResponse, "", None, None, NoChatRequest),
   open |-> [t \in TurnIds |-> NoChatRequest]]

\* (variant: the service of the call before is used again)
createService_Reused(t, userInput) ==
  IF sessions[t] = None THEN NewSession(userInput, "simple") ELSE Session(t)

\* new PerformanceTaskService(userInput)
createService(t, userInput) == NewSession(userInput, "simple")

\* processStepInput up to the first suspension of processMessage
processStepInput(t, stepId, userInput, history) ==
  LET service == createService(t, userInput)
      s == addMessage(service, "user", UserContent(userInput))
      tr == [IdleTurn EXCEPT !.sid = t, !.msg = userInput,
                             !.step = s.currentStep]
  IN Classified(t, tr, s, SimpleValidateStep(userInput))

\* what the route sends once processStepInput has returned or thrown
ChatResponse(t, req) ==
  IF turns'[t].pc = "rejected"
  THEN HttpResponse(500, NoResponse, "Failed to process chat", None, None, req)
  ELSE HttpResponse(200, turns'[t].resp, "", None, None, req)

\* POST /api/chat
ChatPost(t, req) ==
  /\ ~InFlight(t)
  /\ t \in SessionIds
  /\ UNCHANGED activeSessions
  /\ IF req.stepId = "" \/ req.userInput = <<>>
     THEN /\ http' = Sends(HttpResponse(400, NoResponse,
                                        "Missing required parameters",
                                        None, None, req))
          /\ UNCHANGED <<sessions, turns>>
     ELSE /\ processStepInput(t, req.stepId, req.userInput, req.history)
          /\ http' =
               IF turns'[t].pc = "awaitChain"
               THEN [sent |-> NoChatHttp.sent,
                     open |-> [http.open EXCEPT ![t] = req]]
               ELSE Sends(ChatResponse(t, req))

\* chain.invoke returns or throws in a call the chat route awaits
ChatContinues(t, returned) ==
  /\ IF returned THEN ChainReturns(t) ELSE ChainFails(t)
  /\ UNCHANGED activeSessions
  /\ http' = [sent |-> ChatResponse(t, http.open[t]),
              open |-> [http.open EXCEPT ![t] = NoChatRequest]]

ChatInputs == {<<>>, StartWithIdeas, <<Num(2)>>, <<W("yes")>>}

ChatHistories ==
  {<<>>, <<[role |-> "assistant", content |-> AssistantContent(GenericError)]>>}

ChatRequests ==
  {ChatRequest(stepId, userInput, history) :
     stepId \in {"", TASK_IDEAS, RUBRIC}, userInput \in ChatInputs,
     history \in ChatHistories}

InitChat ==
  /\ sessions = [ref \in SessionIds |-> None]
  /\ turns = [t \in TurnIds |-> IdleTurn]
  /\ activeSessions = NoSessions
  /\ http = NoChatHttp

\* requests arrive whether or not earlier ones have been answered
ChatArrives == \E t \in TurnIds : \E req \in ChatRequests : ChatPost(t, req)

NextChat ==
  \/ ChatArrives
  \/ \E t \in TurnIds : ChatContinues(t, TRUE)
  \/ \E t \in TurnIds : ChatContinues(t, FALSE)

SpecChat == InitChat /\ [][NextChat]_vars

(* C40: processStepInput is stateless across calls.  Every service it has
   created is at TASK_IDEAS with nothing selected, whatever calls came
   before; a call suspended in its chain works on a fresh service that holds
   the call's userInput and nothing else, whatever stepId and history it was
   given; and the service of a finished call holds the two transcript
   entries of that call and no candidates but those the call generated. *)
C40_ChatPathIsStateless ==
  /\ \A ref \in SessionIds :
       sessions[ref] # None =>
         /\ Session(ref).currentStep = TASK_IDEAS
         /\ Session(ref).selectedTaskIdea = None
  /\ \A t \in TurnIds :
       turns[t].pc = "awaitChain" =>
         /\ turns[t].step = TASK_IDEAS
         /\ turns[t].msg = http.open[t].userInput
         /\ Session(turns[t].sid) =
              addMessage(NewSession(http.open[t].userInput, "simple"),
                         "user", UserContent(http.open[t].userInput))
  /\ \A t \in TurnIds :
       Finished(t) =>
         /\ Session(turns[t].sid).conversationHistory =
              <<UserEntry(turns[t]), AssistantEntry(turns[t])>>
         /\ Session(turns[t].sid).taskIdeas # None =>
              turns[t].resp =
                Response("TaskIdeas", Ids(Session(turns[t].sid).taskIdeas[1]),
                         "", "")
         /\ Slots(Session(turns[t].sid)) =
              [Slots(NewSession(turns[t].msg, "simple")) EXCEPT
                 !.taskIdeas = Session(turns[t].sid).taskIdeas]

C40_Witness ==
  /\ Finished(1) /\ Finished(2)
  /\ Session(2).taskIdeas = Some(CandList(<<1, 2, 3>>, "A"))
  /\ http.sent.status = 200
  /\ http.sent.req =
       ChatRequest(RUBRIC, <<Num(2)>>,
                   <<[role |-> "assistant",
                      content |-> AssistantContent(GenericError)]>>)
  /\ turns[1].msg = <<Num(2)>>
  /\ http.sent.message = turns[1].resp
  /\ Session(1).taskIdeas = None
  /\ Session(1).currentStep = TASK_IDEAS

====
